---- MODULE Spec2Model ----
(***************************************************************************)
(* Weather volatility alerts: the poll cycle (pollAllLocations), the       *)
(* per-location volatility state machine (processLocation) and the state   *)
(* store (loadLocationState / saveLocationState), as written in            *)
(* src/src/weather.js.                                                     *)
(***************************************************************************)
EXTENDS Integers, Sequences, FiniteSets, TLC

(* ------------------------------------------------------------------ *)
(* Bounds of the model                                                  *)
(* ------------------------------------------------------------------ *)
\* number of configured locations taken from the head of config/locations.js
NumLocations == 2
\* number of poll cycles a behaviour runs
MaxCycles == 3

\* JavaScript null / undefined of a numeric field
Null == -1
\* the temperatures the gateway reports in the model
Temps == {20, 21, 22}
MinTemp == CHOOSE t \in Temps : \A u \in Temps : t <= u
MaxTemp == CHOOSE t \in Temps : \A u \in Temps : t >= u

MinutesPerDay == 24 * 60

(* ------------------------------------------------------------------ *)
(* config/locations.js: id and timezone (as the UTC offset in minutes   *)
(* of the zone in the modelled period, standard time)                   *)
(* ------------------------------------------------------------------ *)
locations ==
  << [id |-> "atlanta", utcOffset |-> -300],
     [id |-> "seattle", utcOffset |-> -480],
     [id |-> "nyc",     utcOffset |-> -300],
     [id |-> "london",  utcOffset |-> 0],
     [id |-> "seoul",   utcOffset |-> 540],
     [id |-> "toronto", utcOffset |-> -300],
     [id |-> "dallas",  utcOffset |-> -360] >>

Min2(a, b) == IF a < b THEN a ELSE b
Max2(a, b) == IF a > b THEN a ELSE b

NLoc == Min2(NumLocations, Len(locations))
LocIdx == 1..NLoc
LocationIds == { locations[i].id : i \in LocIdx }

(* ------------------------------------------------------------------ *)
(* The wall clock: minutes since the epoch (UTC).  The instants the     *)
(* clock visits are chosen around the window edges and the midnights    *)
(* of the first two locations.                                          *)
(*   atlanta local: day 2 12:59, day 2 16:00, day 3  0:00               *)
(*   seattle local: day 2  9:59, day 2 13:00, day 2 21:00               *)
(* ------------------------------------------------------------------ *)
ClockInstants ==
  << 2 * MinutesPerDay + 12 * 60 + 59 + 300,
     2 * MinutesPerDay + 16 * 60 + 300,
     3 * MinutesPerDay + 300 >>

Dates == 2..3

(* ------------------------------------------------------------------ *)
(* moment().tz(timezone): local calendar date, hour, minute             *)
(* ------------------------------------------------------------------ *)
LocalMinutes(t, loc) == t + loc.utcOffset
\* getLocalDate: the 'YYYY-MM-DD' date, as the day number
getLocalDate(t, loc) == LocalMinutes(t, loc) \div MinutesPerDay
LocalHour(t, loc) == (LocalMinutes(t, loc) % MinutesPerDay) \div 60
LocalMinute(t, loc) == LocalMinutes(t, loc) % 60
\* getLocalTime: the 'h:mm A' rendering of the local time
getLocalTime(t, loc) ==
  LET h == LocalHour(t, loc)
  IN  [h  |-> IF h % 12 = 0 THEN 12 ELSE h % 12,
       m  |-> LocalMinute(t, loc),
       p  |-> IF h >= 12 THEN "PM" ELSE "AM"]

\* parseTimeString: "2:30 PM" -> hours and minutes, null when the
\* pattern does not match (a time string is [h, m, p]; p is "AM", "PM",
\* their lower-case forms, or "" for a text without the pattern)
NoMatch == [hours |-> Null, minutes |-> Null]
parseTimeString(timeStr) ==
  IF timeStr.p \notin {"AM", "PM", "am", "pm"} THEN NoMatch
  ELSE LET pm == timeStr.p \in {"PM", "pm"}
           h  == timeStr.h
       IN  [hours   |-> IF pm /\ h # 12 THEN h + 12
                        ELSE IF ~pm /\ h = 12 THEN 0 ELSE h,
            minutes |-> timeStr.m]

(* ------------------------------------------------------------------ *)
(* The gateway's payload (response.data.data) and the extraction of the *)
(* temperature from it                                                  *)
(* ------------------------------------------------------------------ *)
TimeStr(h, m, p) == [h |-> h, m |-> m, p |-> p]
\* an entry of hourly_data; isNull marks a null array element
Entry(t, time) == [isNull |-> FALSE, temperature_c |-> t, time |-> time]
NullEntry == [isNull |-> TRUE, temperature_c |-> Null, time |-> TimeStr(0, 0, "")]

Payload(cur, hourly, celsius, temp, dmax) ==
  [current |-> cur, hourly_data |-> hourly, temperature_celsius |-> celsius,
   temp |-> temp, daily_max |-> dmax]

\* the payloads the gateway answers with in the model
Payloads ==
     { Payload(t, <<>>, Null, Null, MaxTemp) : t \in Temps }
  \cup { Payload(Null, <<Entry(MinTemp, TimeStr(12, 0, "PM")),
                         Entry(MaxTemp, TimeStr(1, 0, "PM"))>>, Null, Null, Null),
         Payload(MinTemp, <<Entry(MaxTemp, TimeStr(1, 0, "PM"))>>, Null, Null, MaxTemp),
         Payload(Null, <<>>, MinTemp, Null, MaxTemp),
         Payload(Null, <<>>, Null, Null, Null),
         Payload(Null, <<Entry(MinTemp, TimeStr(1, 0, "PM")), NullEntry>>,
                 Null, Null, Null) }

\* the loop of extractCurrentTemp over hourly_data: the entry with the
\* latest parsed time; acc is [time, temp, threw]
RECURSIVE MostRecentHourly(_, _, _)
MostRecentHourly(hourly, i, acc) ==
  IF i > Len(hourly) \/ acc.threw THEN acc
  ELSE LET entry == hourly[i]
       IN  IF entry.isNull
           THEN [acc EXCEPT !.threw = TRUE]
           ELSE IF entry.temperature_c # Null /\ entry.time.p # ""
                THEN LET parsed == parseTimeString(entry.time)
                         entryTime == parsed.hours * 60 + parsed.minutes
                     IN  IF parsed # NoMatch
                            /\ (acc.time = Null \/ entryTime > acc.time)
                         THEN MostRecentHourly(hourly, i + 1,
                                [acc EXCEPT !.time = entryTime,
                                            !.temp = entry.temperature_c])
                         ELSE MostRecentHourly(hourly, i + 1, acc)
                ELSE MostRecentHourly(hourly, i + 1, acc)

\* extractCurrentTemp: [threw, temp]; temp = Null is "no temperature"
extractCurrentTemp(data) ==
  LET scan == MostRecentHourly(data.hourly_data, 1,
                               [time |-> Null, temp |-> Null, threw |-> FALSE])
  IN  IF scan.threw THEN [threw |-> TRUE, temp |-> Null]
      ELSE IF data.current # Null THEN [threw |-> FALSE, temp |-> data.current]
      ELSE IF scan.temp # Null THEN [threw |-> FALSE, temp |-> scan.temp]
      ELSE IF data.temperature_celsius # Null
           THEN [threw |-> FALSE, temp |-> data.temperature_celsius]
      ELSE IF data.temp # Null THEN [threw |-> FALSE, temp |-> data.temp]
      ELSE [threw |-> FALSE, temp |-> Null]

RECURSIVE MaxOfTemps(_, _, _)
MaxOfTemps(hourly, i, acc) ==
  IF i > Len(hourly) THEN acc
  ELSE IF hourly[i].temperature_c # Null
       THEN MaxOfTemps(hourly, i + 1,
                       IF acc = Null THEN hourly[i].temperature_c
                       ELSE Max2(acc, hourly[i].temperature_c))
       ELSE MaxOfTemps(hourly, i + 1, acc)

\* extractDailyHigh: daily.temperature.max, else the maximum of hourly_data
extractDailyHigh(data) ==
  IF data.daily_max # Null THEN data.daily_max
  ELSE MaxOfTemps(data.hourly_data, 1, Null)

(* ------------------------------------------------------------------ *)
(* fetchWeatherData: the first request's outcome (first) and, after a   *)
(* future-date rejection, the retry's (retry)                           *)
(* ------------------------------------------------------------------ *)
\* The upstream rejects a date as being in the future when it is after
\* the date of its own clock; that clock is taken to run on the time of
\* the westernmost location of the model.
SourceDate(t) == getLocalDate(t, locations[2])
FirstOutcomes(t, localDate) ==
  {"ok", "error"} \cup (IF localDate > SourceDate(t) THEN {"future"} ELSE {})
RetryOutcomes == {"ok", "error"}
\* a fetch that retries after every failure of the first request
fetchWeatherDataRetriesEveryError(first, retry, localDate, yesterdayDate, data) ==
  IF first = "ok"
  THEN [success |-> TRUE, data |-> data, localDate |-> localDate,
        isFallback |-> FALSE, requests |-> 1]
  ELSE IF retry = "ok"
  THEN [success |-> TRUE, data |-> data, localDate |-> yesterdayDate,
        isFallback |-> TRUE, requests |-> 2]
  ELSE [success |-> FALSE, data |-> data, localDate |-> localDate,
        isFallback |-> FALSE, requests |-> 2]
fetchWeatherData(first, retry, localDate, yesterdayDate, data) ==
  IF first = "ok"
  THEN [success |-> TRUE, data |-> data, localDate |-> localDate,
        isFallback |-> FALSE, requests |-> 1]
  ELSE IF first = "future" /\ retry = "ok"
  THEN [success |-> TRUE, data |-> data, localDate |-> yesterdayDate,
        isFallback |-> TRUE, requests |-> 2]
  ELSE [success |-> FALSE, data |-> data, localDate |-> localDate,
        isFallback |-> FALSE, requests |-> IF first = "future" THEN 2 ELSE 1]

(* ------------------------------------------------------------------ *)
(* State store (state.js): one file per (locationId, date)              *)
(* ------------------------------------------------------------------ *)
\* the default state of a new day; sustainedHighCount and
\* lastHighAlertTemp are absent from it (undefined)
DefaultState ==
  [highTemp |-> Null, hasAlertedDrop |-> FALSE, lastTemp |-> Null,
   history |-> <<>>, sustainedHighCount |-> Null, lastHighAlertTemp |-> Null]

getStateFilePath(locationId, date) == <<locationId, date>>

\* a load that falls back to the row of the day before
loadLocationStateCarriesOver(files, locationId, date) ==
  IF getStateFilePath(locationId, date) \in DOMAIN files
  THEN files[getStateFilePath(locationId, date)]
  ELSE IF getStateFilePath(locationId, date - 1) \in DOMAIN files
  THEN files[getStateFilePath(locationId, date - 1)]
  ELSE DefaultState

loadLocationState(files, locationId, date) ==
  IF getStateFilePath(locationId, date) \in DOMAIN files
  THEN files[getStateFilePath(locationId, date)]
  ELSE DefaultState

\* a failed write that leaves an empty row behind
saveLocationStateTruncates(files, locationId, date, state, writeOk) ==
  [k \in DOMAIN files \cup {getStateFilePath(locationId, date)} |->
     IF k = getStateFilePath(locationId, date)
     THEN (IF writeOk THEN state ELSE DefaultState)
     ELSE files[k]]

\* writeFileSync either writes the whole row or fails, and the failure is
\* caught and logged
saveLocationState(files, locationId, date, state, writeOk) ==
  IF writeOk
  THEN [k \in DOMAIN files \cup {getStateFilePath(locationId, date)} |->
          IF k = getStateFilePath(locationId, date) THEN state ELSE files[k]]
  ELSE files

(* ------------------------------------------------------------------ *)
(* Attention zones                                                      *)
(* ------------------------------------------------------------------ *)
Zone(sh, eh) == [startHour |-> sh, startMin |-> 0, endHour |-> eh, endMin |-> 0]
\* the zones initAttentionZones leaves in attentionZones in the model:
\* the window 13:00-16:00 for the locations at odd positions of the
\* configuration and 12:00-15:00 for those at even positions
InitialZones ==
  [id \in LocationIds |->
     LET i == CHOOSE j \in LocIdx : locations[j].id = id
     IN  IF i % 2 = 1 THEN Zone(13, 16) ELSE Zone(12, 15)]

\* isInCriticalWindow: zones maps location ids to zones; an id outside
\* its domain has no zone yet
isInCriticalWindow(zones, t, loc) ==
  IF loc.id \notin DOMAIN zones
  THEN LocalHour(t, loc) >= 13 /\ LocalHour(t, loc) < 16
  ELSE LET zone == zones[loc.id]
           timeInMinutes == LocalHour(t, loc) * 60 + LocalMinute(t, loc)
           startWindow == zone.startHour * 60 + zone.startMin
           endWindow == zone.endHour * 60 + zone.endMin
       IN  timeInMinutes >= startWindow /\ timeInMinutes <= endWindow

(* ------------------------------------------------------------------ *)
(* processLocation, the part after the state row is loaded: the         *)
(* volatility state machine.  Yields the new row and the alerts.        *)
(* ------------------------------------------------------------------ *)
Alert(type, loc, temp, prevHigh, high, count, time, date) ==
  [type |-> type, location |-> loc.id, temp |-> temp, prevHigh |-> prevHigh,
   high |-> high, count |-> count, time |-> time, date |-> date]

HistoryEntry(temp, time) == [temp |-> temp, time |-> time]

\* lines 1402-1412: the first reading of the day
Baseline(state, currentTemp, localTime) ==
  [state EXCEPT !.highTemp = currentTemp,
                !.lastTemp = currentTemp,
                !.hasAlertedDrop = FALSE,
                !.history = Append(@, HistoryEntry(currentTemp, localTime))]

\* line 1422: the reading is a new high
IsNewHigh(state, currentTemp) == currentTemp > state.highTemp

\* a new high that leaves the drop flag as it was
OnNewHighKeepsDropFlag(state, currentTemp) ==
  [state EXCEPT !.highTemp = currentTemp,
                !.sustainedHighCount = 1,
                !.lastHighAlertTemp = currentTemp]

\* lines 1423-1427
OnNewHigh(state, currentTemp) ==
  [state EXCEPT !.highTemp = currentTemp,
                !.hasAlertedDrop = FALSE,
                !.sustainedHighCount = 1,
                !.lastHighAlertTemp = currentTemp]

\* a drop test that forgets the drop flag
IsAnyDrop(state, currentTemp) == currentTemp < state.highTemp

\* line 1442: the reading is the first drop from the high
IsFirstDrop(state, currentTemp) ==
  currentTemp < state.highTemp /\ ~state.hasAlertedDrop

\* a drop that is alerted without being remembered
OnDropForgetsFlag(state, currentTemp) ==
  [state EXCEPT !.sustainedHighCount = 0]

\* a drop that also lowers the tracked high to the reading
OnDropLowersHigh(state, currentTemp) ==
  [state EXCEPT !.hasAlertedDrop = TRUE,
                !.sustainedHighCount = 0,
                !.highTemp = currentTemp]

\* lines 1443-1444
OnDrop(state, currentTemp) ==
  [state EXCEPT !.hasAlertedDrop = TRUE,
                !.sustainedHighCount = 0]

\* a sustained-high test that forgets the attention zone
IsSustainedHighAnywhere(state, currentTemp, inAttentionZone) ==
  currentTemp = state.highTemp /\ ~state.hasAlertedDrop

\* line 1459: the reading holds the high inside the attention zone
IsSustainedHigh(state, currentTemp, inAttentionZone) ==
  inAttentionZone /\ currentTemp = state.highTemp /\ ~state.hasAlertedDrop

\* lines 1461-1464: a missing or zero count starts at 1, then ++
OnSustainedHigh(state) ==
  LET init == IF state.sustainedHighCount = Null \/ state.sustainedHighCount = 0
              THEN 1 ELSE state.sustainedHighCount
  IN  [state EXCEPT !.sustainedHighCount = init + 1]

\* line 1467: the count from which a sustained high is alerted
SustainedAlertFrom == 2

\* branches that are tested one after the other instead of being chained
\* with else: a new high inside the attention zone is a sustained high too
DecideAlertFallsThrough(state, currentTemp, inAttentionZone, loc, localTime, date) ==
  LET high == IF IsNewHigh(state, currentTemp)
              THEN [state  |-> OnNewHigh(state, currentTemp),
                    alerts |-> << Alert("new_high", loc, currentTemp,
                                        state.highTemp, Null, Null,
                                        localTime, date) >>]
              ELSE [state |-> state, alerts |-> <<>>]
      drop == IF IsFirstDrop(high.state, currentTemp)
              THEN [state  |-> OnDrop(high.state, currentTemp),
                    alerts |-> high.alerts \o
                               << Alert("drop", loc, currentTemp, Null,
                                        high.state.highTemp, Null,
                                        localTime, date) >>]
              ELSE high
  IN  IF IsSustainedHigh(drop.state, currentTemp, inAttentionZone)
      THEN LET after == OnSustainedHigh(drop.state)
           IN  [state  |-> after,
                alerts |-> IF after.sustainedHighCount >= SustainedAlertFrom
                           THEN drop.alerts \o
                                << Alert("sustained_high", loc, currentTemp, Null,
                                         Null, after.sustainedHighCount,
                                         localTime, date) >>
                           ELSE drop.alerts]
      ELSE drop

\* lines 1421-1481: the branch taken in the Tracking state
DecideAlert(state, currentTemp, inAttentionZone, loc, localTime, date) ==
  IF IsNewHigh(state, currentTemp)
  THEN [state  |-> OnNewHigh(state, currentTemp),
        alerts |-> << Alert("new_high", loc, currentTemp, state.highTemp,
                            Null, Null, localTime, date) >>]
  ELSE IF IsFirstDrop(state, currentTemp)
  THEN [state  |-> OnDrop(state, currentTemp),
        alerts |-> << Alert("drop", loc, currentTemp, Null,
                            OnDrop(state, currentTemp).highTemp,
                            Null, localTime, date) >>]
  ELSE IF IsSustainedHigh(state, currentTemp, inAttentionZone)
  THEN LET after == OnSustainedHigh(state)
       IN  [state  |-> after,
            alerts |-> IF after.sustainedHighCount >= SustainedAlertFrom
                       THEN << Alert("sustained_high", loc, currentTemp, Null,
                                     Null, after.sustainedHighCount,
                                     localTime, date) >>
                       ELSE <<>>]
  ELSE [state |-> state, alerts |-> <<>>]

\* an update that forgets the history
RecordReadingNoHistory(state, currentTemp, localTime) ==
  [state EXCEPT !.lastTemp = currentTemp]

\* lines 1483-1485: the update every Tracking-state reading ends with
RecordReading(state, currentTemp, localTime) ==
  [state EXCEPT !.lastTemp = currentTemp,
                !.history = Append(@, HistoryEntry(currentTemp, localTime))]

\* a state machine without the baseline branch: the first reading of the
\* day is compared with the null high
ProcessReadingNoBaseline(state, currentTemp, inAttentionZone, loc, localTime, date) ==
  LET d == DecideAlert(state, currentTemp, inAttentionZone, loc, localTime, date)
  IN  [state  |-> RecordReading(d.state, currentTemp, localTime),
       alerts |-> d.alerts]

\* lines 1400-1488: [state, alerts] for a reading against a loaded row
ProcessReading(state, currentTemp, inAttentionZone, loc, localTime, date) ==
  IF state.highTemp = Null
  THEN [state |-> Baseline(state, currentTemp, localTime), alerts |-> <<>>]
  ELSE LET d == DecideAlert(state, currentTemp, inAttentionZone, loc, localTime, date)
       IN  [state  |-> RecordReading(d.state, currentTemp, localTime),
            alerts |-> d.alerts]

(* ------------------------------------------------------------------ *)
(* State of the service                                                 *)
(* ------------------------------------------------------------------ *)
VARIABLES
  clk,             \* position of the wall clock in ClockInstants
  files,           \* data/: (locationId, date) -> state row
  diskFaulty,      \* whether writes to data/ can fail in this run
  attentionZones,  \* locationId -> zone
  currentReadings, \* locationId -> reading shown by /status
  pc,              \* position of the poll scheduler
  idx,             \* index of the location the cycle is at
  reqDate,         \* localDate of the request in flight
  allAlerts,       \* alerts collected by the cycle
  sentIdx,         \* index of the next alert to broadcast
  outbox,          \* alerts broadcast by the cycle, in order
  cycles,          \* poll cycles started
  processed,       \* (locationId, date) -> temperatures processLocation obtained
  trail,           \* the processLocation calls of the cycle: location, outcome, alerts
  last,            \* what the latest processLocation call did
  timer,           \* the timer of scheduleNextPoll and the wall clock it reads
  probe,           \* a call of one of the pure functions: input and result
  zoneJob,         \* position and data of a calculateAttentionZone call
  sustainedHighStats,  \* locationId -> average sustained count and its data
  activeTrackings,    \* the chat's entry: its Map of locationId -> session
  trackingIntervals,  \* locationId -> the interval registered for the pair
  liveTimers,         \* the intervals set and not cleared
  sessionObjects,     \* the lastTemp of each session object ever created
  trackRequests,      \* /track handlers waiting for their placeholder
  ticks,              \* interval callbacks waiting for a fetch, edit or send
  trackCount,         \* /track commands that went on to send a placeholder
  lastTrack,          \* what the latest /track handler did
  lastTick,           \* what the latest interval callback did
  users,              \* data/users.json: the registered users, in order
  mailing             \* a call of broadcastMessage: its list and position

\* the state of the poll cycle and of the store
pollVars == << clk, files, diskFaulty, attentionZones, currentReadings, pc, idx,
               reqDate, allAlerts, sentIdx, outbox, cycles, processed, trail,
               last >>

\* the state the poll cycle never touches
zoneVars == << zoneJob, sustainedHighStats >>

\* the live tracking of telegram.js
trackVars == << activeTrackings, trackingIntervals, liveTimers, sessionObjects,
                trackRequests, ticks, trackCount, lastTrack, lastTick >>

\* the user registry and the broadcast over it
sinkVars == << users, mailing >>

auxVars == << timer, probe, zoneVars, trackVars, sinkVars >>

vars == << clk, files, diskFaulty, attentionZones, currentReadings, pc, idx,
           reqDate, allAlerts, sentIdx, outbox, cycles, processed, trail, last,
           timer, probe, zoneJob, sustainedHighStats, activeTrackings,
           trackingIntervals, liveTimers, sessionObjects, trackRequests, ticks,
           trackCount, lastTrack, lastTick, users, mailing >>

now == ClockInstants[clk]

Keys == LocationIds \X Dates

NoReading == [temp |-> Null, time |-> TimeStr(0, 0, ""), date |-> Null,
              high |-> Null, apiDailyMax |-> Null, isFallback |-> FALSE]

\* a payload that carries a temperature in one of the places
\* extractCurrentTemp looks at
HasTemperature(data) ==
  \/ data.current # Null
  \/ \E i \in 1..Len(data.hourly_data) :
        /\ ~data.hourly_data[i].isNull
        /\ data.hourly_data[i].temperature_c # Null
        /\ data.hourly_data[i].time.p \in {"AM", "PM", "am", "pm"}
  \/ data.temperature_celsius # Null
  \/ data.temp # Null

\* the record of a processLocation call: kind is "fetch_failed", "threw",
\* "no_temp" or "reading"; gatewayOk and hasTemp are what the gateway did
NoCall == [kind |-> "none", location |-> "", date |-> Null, temp |-> Null,
           alerts |-> <<>>, before |-> DefaultState, after |-> DefaultState,
           existed |-> FALSE, filesBefore |-> << >>, collected |-> <<>>,
           clk |-> 0, gatewayOk |-> FALSE, hasTemp |-> FALSE]

\* the poll cycle and the store before the first poll
CycleStart ==
  /\ clk = 1
  /\ files = << >>
  /\ currentReadings = [l \in LocationIds |-> NoReading]
  /\ pc = "idle"
  /\ idx = 0
  /\ reqDate = Null
  /\ allAlerts = <<>>
  /\ sentIdx = 0
  /\ outbox = <<>>
  /\ cycles = 0
  /\ processed = [k \in Keys |-> <<>>]
  /\ trail = <<>>
  /\ last = NoCall

\* ... on a disk whose writes succeed
CycleInit == CycleStart /\ diskFaulty = FALSE

\* ... with the attention zones initAttentionZones has set
PollInit == CycleInit /\ attentionZones = InitialZones

\* no timer armed yet: initWeatherService has not reached scheduleNextPoll
NoTimer == [now |-> 0, armed |-> FALSE, msUntilNext |-> 0, polls |-> 0]

TimerIdle == timer = NoTimer

\* no function called
NoProbe == [fn |-> "none", input |-> <<>>, output |-> <<>>, done |-> FALSE]

ProbeIdle == probe = NoProbe

\* no zone calculation running
NoZoneJob == [pc |-> "idle", loc |-> 0, i |-> 0, requests |-> 0,
              highTimes |-> <<>>, sustainedCounts |-> <<>>]

ZoneIdle == zoneJob = NoZoneJob /\ sustainedHighStats = << >>

MaxTrackRequests == 3
MaxInFlight == 1

\* the locations the chat tracks in the model
TrackedLocations == { locations[i].id : i \in 1..2 }

\* an empty Map of sessions (0: no session for the location) and the
\* state of activeTrackings without an entry for the chat
NoSessions == [l \in TrackedLocations |-> 0]
NoChat == [present |-> FALSE, map |-> 0, sessions |-> NoSessions]
NoTick ==
  [pc |-> "idle", timer |-> 0, loc |-> "", obj |-> 0, fetched |-> "",
   temp |-> Null, prev |-> Null, tempChanged |-> FALSE]
NoLastTick ==
  [fetched |-> "", changed |-> FALSE, edits |-> 0, editOk |-> FALSE,
   sends |-> 0, sendOk |-> FALSE]
NoLastTrack == [kind |-> "none", placeholders |-> 0]

\* telegram.js before the first command: both Maps empty
TrackIdle ==
  /\ activeTrackings = NoChat
  /\ trackingIntervals = NoSessions
  /\ liveTimers = {}
  /\ sessionObjects = [n \in 1..MaxTrackRequests |-> Null]
  /\ trackRequests = {}
  /\ ticks = [s \in 1..MaxInFlight |-> NoTick]
  /\ trackCount = 0
  /\ lastTrack = NoLastTrack
  /\ lastTick = NoLastTick

NoMailing ==
  [pc |-> "idle", marketId |-> "", users |-> <<>>, i |-> 0, sentCount |-> 0,
   log |-> <<>>, registered |-> <<>>]
\* no registered user, no broadcast
SinkIdle == users = <<>> /\ mailing = NoMailing

Init == PollInit /\ TimerIdle /\ ProbeIdle /\ ZoneIdle /\ TrackIdle /\ SinkIdle

\* time passes
Tick ==
  /\ clk < Len(ClockInstants)
  /\ clk' = clk + 1
  /\ UNCHANGED << files, diskFaulty, attentionZones, currentReadings, pc, idx,
                  reqDate, allAlerts, sentIdx, outbox, cycles, processed, trail,
                  last >>
  /\ UNCHANGED auxVars

\* pollAllLocations is entered (the initial poll, or the timer of
\* scheduleNextPoll fires)
PollStart ==
  /\ pc = "idle"
  /\ cycles < MaxCycles
  /\ cycles' = cycles + 1
  /\ allAlerts' = <<>>
  /\ outbox' = <<>>
  /\ sentIdx' = 1
  /\ idx' = 1
  /\ pc' = "fetch"
  /\ trail' = <<>>
  /\ UNCHANGED << clk, files, diskFaulty, attentionZones, currentReadings,
                  reqDate, processed, last >>
  /\ UNCHANGED auxVars

\* processLocation sends the request of fetchWeatherData
FetchRequest ==
  /\ pc = "fetch"
  /\ reqDate' = getLocalDate(now, locations[idx])
  /\ pc' = "await"
  /\ UNCHANGED << clk, files, diskFaulty, attentionZones, currentReadings, idx,
                  allAlerts, sentIdx, outbox, cycles, processed, trail, last >>
  /\ UNCHANGED auxVars

\* a loop without the try/catch whose exception rejects pollAllLocations:
\* the callback of scheduleNextPoll ends before it arms the next timer
AfterLocationRejects(kind, i) ==
  IF kind = "threw" THEN "rejected"
  ELSE IF i >= NLoc THEN "dispatch" ELSE "fetch"

\* a loop without the try/catch: an exception ends the cycle
AfterLocationAbortsOnThrow(kind, i) ==
  IF kind = "threw" THEN "idle"
  ELSE IF i >= NLoc THEN "dispatch" ELSE "fetch"

\* a loop that dispatches right after each location
AfterLocationDispatchesEarly(kind, i) == "dispatch"

\* where the loop of pollAllLocations goes after the call for location i
\* ended with the given outcome: an exception is caught and logged, and the
\* loop goes on with the next location
AfterLocation(kind, i) == IF i >= NLoc THEN "dispatch" ELSE "fetch"

\* a call that goes on without a temperature
CallOutcomeKeepsNull(result, extracted) ==
  IF ~result.success THEN "fetch_failed"
  ELSE IF extracted.threw THEN "threw"
  ELSE "reading"

\* lines 1359-1371: how a processLocation call ends, from the result of
\* fetchWeatherData and of extractCurrentTemp
CallOutcome(result, extracted) ==
  IF ~result.success THEN "fetch_failed"
  ELSE IF extracted.threw THEN "threw"
  ELSE IF extracted.temp = Null THEN "no_temp"
  ELSE "reading"

\* the call ends without touching the state (failed fetch, exception
\* caught by pollAllLocations, or no temperature)
Skip(kind, gatewayOk, hasTemp) ==
  /\ last' = [NoCall EXCEPT !.kind = kind, !.location = locations[idx].id,
                            !.filesBefore = files, !.collected = allAlerts,
                            !.clk = clk, !.gatewayOk = gatewayOk,
                            !.hasTemp = hasTemp]
  /\ trail' = Append(trail, [location |-> locations[idx].id, kind |-> kind,
                             alerts |-> <<>>])
  /\ UNCHANGED << files, currentReadings, allAlerts, processed >>

\* the rest of processLocation, once the gateway has answered
ProcessLocation ==
  /\ pc = "await"
  /\ \E first \in FirstOutcomes(now, reqDate), retry \in RetryOutcomes, data \in Payloads,
        writeOk \in (IF diskFaulty THEN BOOLEAN ELSE {TRUE}) :
       LET location == locations[idx]
           result == fetchWeatherData(first, retry, reqDate,
                                      getLocalDate(now, location) - 1, data)
           extracted == extractCurrentTemp(result.data)
           currentTemp == extracted.temp
           dailyHigh == extractDailyHigh(result.data)
           actualLocalDate == getLocalDate(now, location)
           localTime == getLocalTime(now, location)
           state == loadLocationState(files, location.id, actualLocalDate)
           displayHigh == IF state.highTemp # Null
                          THEN Max2(state.highTemp, currentTemp) ELSE currentTemp
           inAttentionZone == isInCriticalWindow(attentionZones, now, location)
           r == ProcessReading(state, currentTemp, inAttentionZone, location,
                               localTime, actualLocalDate)
           gatewayOk == first = "ok" \/ (first = "future" /\ retry = "ok")
           kind == CallOutcome(result, extracted)
       IN  /\ pc' = AfterLocation(kind, idx)
           /\ IF kind # "reading"
              THEN Skip(kind, gatewayOk, gatewayOk /\ HasTemperature(data))
              ELSE
                /\ currentReadings' =
                     [currentReadings EXCEPT ![location.id] =
                        [temp |-> currentTemp, time |-> localTime,
                         date |-> actualLocalDate, high |-> displayHigh,
                         apiDailyMax |-> dailyHigh,
                         isFallback |-> result.isFallback]]
                /\ files' = saveLocationState(files, location.id, actualLocalDate,
                                              r.state, writeOk)
                /\ allAlerts' = allAlerts \o r.alerts
                /\ processed' =
                     [processed EXCEPT ![<<location.id, actualLocalDate>>] =
                        Append(@, currentTemp)]
                /\ last' = [kind |-> "reading", location |-> location.id,
                            date |-> actualLocalDate, temp |-> currentTemp,
                            alerts |-> r.alerts, before |-> state,
                            after |-> r.state,
                            existed |-> <<location.id, actualLocalDate>>
                                          \in DOMAIN files,
                            filesBefore |-> files, collected |-> allAlerts,
                            clk |-> clk, gatewayOk |-> gatewayOk,
                            hasTemp |-> gatewayOk /\ HasTemperature(data)]
                /\ trail' = Append(trail, [location |-> location.id,
                                           kind |-> "reading",
                                           alerts |-> r.alerts])
  /\ idx' = idx + 1
  /\ UNCHANGED << clk, diskFaulty, attentionZones, reqDate, sentIdx, outbox,
                  cycles >>
  /\ UNCHANGED auxVars

\* formatAlert: the message text of an alert, '' for an unknown type; the
\* text is identified with the alert it renders
formatAlert(alert) ==
  IF alert.type \in {"new_high", "drop", "sustained_high"}
  THEN [empty |-> FALSE, alert |-> alert]
  ELSE [empty |-> TRUE, alert |-> alert]

\* pollAllLocations broadcasts the next collected alert
Broadcast ==
  /\ pc = "dispatch"
  /\ sentIdx <= Len(allAlerts)
  /\ LET message == formatAlert(allAlerts[sentIdx])
     IN  outbox' = IF message.empty THEN outbox
                   ELSE Append(outbox, [message |-> message.alert,
                                        marketId |-> allAlerts[sentIdx].location])
  /\ sentIdx' = sentIdx + 1
  /\ UNCHANGED << clk, files, diskFaulty, attentionZones, currentReadings, pc,
                  idx, reqDate, allAlerts, cycles, processed, trail, last >>
  /\ UNCHANGED auxVars

\* pollAllLocations returns; scheduleNextPoll arms the next timer
PollDone ==
  /\ pc = "dispatch"
  /\ sentIdx > Len(allAlerts)
  /\ pc' = "idle"
  /\ UNCHANGED << clk, files, diskFaulty, attentionZones, currentReadings,
                  idx, reqDate, allAlerts, sentIdx, outbox, cycles, processed,
                  trail, last >>
  /\ UNCHANGED auxVars

Next ==
  \/ Tick
  \/ PollStart
  \/ FetchRequest
  \/ ProcessLocation
  \/ Broadcast
  \/ PollDone

Spec == Init /\ [][Next]_vars

(* ------------------------------------------------------------------ *)
(* Vocabulary of the properties                                         *)
(* ------------------------------------------------------------------ *)
RECURSIVE SeqMax(_)
SeqMax(s) == IF Len(s) = 1 THEN s[1] ELSE Max2(s[1], SeqMax(Tail(s)))

HistoryTemps(row) == [i \in 1..Len(row.history) |-> row.history[i].temp]

LocationOf(id) == CHOOSE l \in { locations[i] : i \in LocIdx } : l.id = id

\* the row the latest call worked on, as the store holds it now
LastKey == <<last.location, last.date>>
IsReading == last.kind = "reading"
\* the latest call found a row with a high: the Tracking state
IsTracking == IsReading /\ last.before.highTemp # Null

AlertTypes(alerts) == [i \in 1..Len(alerts) |-> alerts[i].type]

\* index of the reading that set the current high of a row: the first
\* occurrence of the maximum among the temperatures processed
HighSetAt(temps) == CHOOSE i \in 1..Len(temps) :
                      /\ temps[i] = SeqMax(temps)
                      /\ \A j \in 1..(i - 1) : temps[j] < temps[i]

\* a 'h:mm A' time lies in the window [startHour:startMin, endHour:endMin]
InsideWindow(zone, timeStr) ==
  LET parsed == parseTimeString(timeStr)
      m == parsed.hours * 60 + parsed.minutes
  IN  /\ m >= zone.startHour * 60 + zone.startMin
      /\ m <= zone.endHour * 60 + zone.endMin

\* the latest call ran while its location's local time was in the window
LastInWindow ==
  InsideWindow(attentionZones[last.location],
               getLocalTime(ClockInstants[last.clk], LocationOf(last.location)))

(* ------------------------------------------------------------------ *)
(* C1: for every (location, date) row the persisted highTemp equals the *)
(* maximum of all temperatures processed for that key since its         *)
(* baseline, and a reading never lowers the highTemp it found.          *)
(* ------------------------------------------------------------------ *)
C1_HighTempIsRunningMax ==
  /\ \A k \in DOMAIN files :
       /\ processed[k] # <<>>
       /\ files[k].highTemp = SeqMax(processed[k])
  /\ IsTracking => files[LastKey].highTemp >= last.before.highTemp

\* a row that saw a baseline, a higher reading and then a lower one
C1_Witness ==
  \E k \in DOMAIN files :
    /\ Len(processed[k]) = 3
    /\ processed[k][2] > processed[k][1]
    /\ processed[k][3] < processed[k][2]
    /\ files[k].highTemp = processed[k][2]

\* the time string the latest call stamped its reading with
LastTime == getLocalTime(ClockInstants[last.clk], LocationOf(last.location))

\* the history the latest call found in the store for its key
LastHistoryBefore ==
  IF LastKey \in DOMAIN last.filesBefore
  THEN last.filesBefore[LastKey].history ELSE <<>>

HasType(alerts, type) == \E i \in 1..Len(alerts) : alerts[i].type = type

(* ------------------------------------------------------------------ *)
(* C2: the first reading for a key whose row has highTemp = null        *)
(* returns no event and persists highTemp = lastTemp = reading,         *)
(* hasAlertedDrop = false and the reading appended to the history.      *)
(* ------------------------------------------------------------------ *)
C2_BaselineIsSilent ==
  (IsReading /\ last.before.highTemp = Null) =>
    /\ last.alerts = <<>>
    /\ trail # <<>> => allAlerts = last.collected
    /\ LastKey \in DOMAIN files
    /\ files[LastKey].highTemp = last.temp
    /\ files[LastKey].lastTemp = last.temp
    /\ files[LastKey].hasAlertedDrop = FALSE
    /\ files[LastKey].history =
         Append(last.before.history, HistoryEntry(last.temp, LastTime))

\* a baseline reading taken while other rows already exist
C2_Witness ==
  /\ IsReading
  /\ last.before.highTemp = Null
  /\ files[LastKey].highTemp = last.temp
  /\ Cardinality(DOMAIN files) >= 2

(* ------------------------------------------------------------------ *)
(* C3: in the Tracking state a reading above highTemp emits exactly one *)
(* event, NewHigh(prev = old highTemp, new = reading), and leaves       *)
(* highTemp = reading, hasAlertedDrop = false, sustainedHighCount = 1.  *)
(* ------------------------------------------------------------------ *)
C3_NewHigh ==
  (IsTracking /\ last.temp > last.before.highTemp) =>
    /\ Len(last.alerts) = 1
    /\ last.alerts[1].type = "new_high"
    /\ last.alerts[1].location = last.location
    /\ last.alerts[1].prevHigh = last.before.highTemp
    /\ last.alerts[1].temp = last.temp
    /\ files[LastKey].highTemp = last.temp
    /\ files[LastKey].hasAlertedDrop = FALSE
    /\ files[LastKey].sustainedHighCount = 1

\* a new high inside the attention window, after the drop from the
\* earlier high had been alerted
C3_Witness ==
  /\ IsTracking
  /\ last.temp > last.before.highTemp
  /\ last.before.hasAlertedDrop
  /\ LastInWindow
  /\ HasType(last.alerts, "new_high")

(* ------------------------------------------------------------------ *)
(* C4: after a high is set, exactly the first reading strictly below    *)
(* it emits Drop(high, to = reading) and sets hasAlertedDrop = true,    *)
(* sustainedHighCount = 0; later readings at or below the high emit no  *)
(* Drop; hasAlertedDrop returns to false only with a NewHigh.           *)
(* ------------------------------------------------------------------ *)
C4_FirstDropOnly ==
  /\ (IsTracking /\ last.temp < last.before.highTemp
        /\ ~last.before.hasAlertedDrop) =>
       /\ Len(last.alerts) = 1
       /\ last.alerts[1].type = "drop"
       /\ last.alerts[1].location = last.location
       /\ last.alerts[1].high = last.before.highTemp
       /\ last.alerts[1].temp = last.temp
       /\ files[LastKey].hasAlertedDrop
       /\ files[LastKey].sustainedHighCount = 0
  /\ (IsTracking /\ last.temp <= last.before.highTemp
        /\ last.before.hasAlertedDrop) =>
       /\ ~HasType(last.alerts, "drop")
       /\ files[LastKey].hasAlertedDrop
  /\ (IsTracking /\ last.before.hasAlertedDrop
        /\ ~files[LastKey].hasAlertedDrop) =>
       HasType(last.alerts, "new_high")
  /\ \A k \in DOMAIN files :
       files[k].hasAlertedDrop <=>
         \E j \in (HighSetAt(processed[k]) + 1)..Len(processed[k]) :
           processed[k][j] < SeqMax(processed[k])

\* a high, its first drop (alerted) and a further drop (silent)
C4_Witness ==
  /\ IsTracking
  /\ last.before.hasAlertedDrop
  /\ last.temp < last.before.lastTemp
  /\ last.alerts = <<>>
  /\ Len(processed[LastKey]) = 3

(* ------------------------------------------------------------------ *)
(* C5: in the Tracking state a reading equal to highTemp with           *)
(* hasAlertedDrop = false increments sustainedHighCount and emits       *)
(* SustainedHigh(count = the incremented value) if and only if the      *)
(* location's local time is inside its window [startHour:00,            *)
(* endHour:00]; the first such event after a high is set has count 2;   *)
(* no SustainedHigh outside the window or while hasAlertedDrop.         *)
(* ------------------------------------------------------------------ *)
CountOrOne(row) ==
  IF row.sustainedHighCount = Null \/ row.sustainedHighCount = 0
  THEN 1 ELSE row.sustainedHighCount

C5_SustainedHigh ==
  /\ (IsTracking /\ last.temp = last.before.highTemp
        /\ ~last.before.hasAlertedDrop) =>
       IF LastInWindow
       THEN /\ Len(last.alerts) = 1
            /\ last.alerts[1].type = "sustained_high"
            /\ last.alerts[1].location = last.location
            /\ last.alerts[1].count = files[LastKey].sustainedHighCount
            /\ files[LastKey].sustainedHighCount = CountOrOne(last.before) + 1
       ELSE /\ last.alerts = <<>>
            /\ files[LastKey].sustainedHighCount = last.before.sustainedHighCount
  /\ (IsReading /\ HasType(last.alerts, "sustained_high")) =>
       /\ LastInWindow
       /\ ~last.before.hasAlertedDrop
       /\ last.temp = last.before.highTemp
       /\ last.alerts[1].count >= 2
  /\ \A k \in DOMAIN files :
       ~files[k].hasAlertedDrop =>
         CountOrOne(files[k]) =
           1 + Cardinality({ j \in (HighSetAt(processed[k]) + 1)..Len(processed[k]) :
                               InsideWindow(attentionZones[k[1]],
                                            files[k].history[j].time) })

\* a high held three times: the repeat outside the window is silent, the
\* one inside it is the first SustainedHigh, with count 2
C5_Witness ==
  /\ IsTracking
  /\ Len(processed[LastKey]) = 3
  /\ processed[LastKey][1] = processed[LastKey][2]
  /\ processed[LastKey][2] = processed[LastKey][3]
  /\ ~InsideWindow(attentionZones[last.location], files[LastKey].history[2].time)
  /\ Len(last.alerts) = 1
  /\ last.alerts[1].type = "sustained_high"
  /\ last.alerts[1].count = 2

(* ------------------------------------------------------------------ *)
(* C6: every processLocation call that obtains a temperature r, in any  *)
(* branch, ends with lastTemp = r and the history extended by exactly   *)
(* one entry for r at its end, earlier entries unchanged, and has the   *)
(* row in the store by the time its events are returned.                *)
(* ------------------------------------------------------------------ *)
C6_EveryReadingRecorded ==
  /\ IsReading =>
       /\ LastKey \in DOMAIN files
       /\ files[LastKey] = last.after
       /\ files[LastKey].lastTemp = last.temp
       /\ files[LastKey].history =
            Append(LastHistoryBefore, HistoryEntry(last.temp, LastTime))
       /\ trail # <<>> => allAlerts = last.collected \o last.alerts
  /\ \A k \in DOMAIN files : HistoryTemps(files[k]) = processed[k]

\* a reading of the no-event branch, the third for its key
C6_Witness ==
  /\ IsTracking
  /\ last.alerts = <<>>
  /\ last.temp = last.before.highTemp
  /\ Len(files[LastKey].history) = 3
  /\ files[LastKey].lastTemp = last.temp

(* ------------------------------------------------------------------ *)
(* C7: after a location's local calendar date advances, its next        *)
(* reading is processed against a fresh row for the new date key        *)
(* (highTemp = null: a silent baseline whatever the previous day's      *)
(* high), and the rows and keys of all other locations, and of the      *)
(* previous day, are left as they were.                                 *)
(* ------------------------------------------------------------------ *)
LocalDateAt(t, id) == (t + LocationOf(id).utcOffset) \div (24 * 60)

C7_DayBoundary ==
  IsReading =>
    /\ last.date = LocalDateAt(ClockInstants[last.clk], last.location)
    /\ Len(processed[LastKey]) = 1 =>
         /\ ~last.existed
         /\ last.before = DefaultState
         /\ last.alerts = <<>>
         /\ files[LastKey].highTemp = last.temp
    /\ DOMAIN files = DOMAIN last.filesBefore \cup {LastKey}
    /\ \A k \in DOMAIN last.filesBefore :
         k # LastKey => files[k] = last.filesBefore[k]

\* the first reading of a new local day, below the high of the day before,
\* while another location is still on its earlier date
C7_Witness ==
  /\ IsReading
  /\ Len(processed[LastKey]) = 1
  /\ <<last.location, last.date - 1>> \in DOMAIN files
  /\ files[<<last.location, last.date - 1>>].highTemp > last.temp
  /\ \E k \in DOMAIN files : k[1] # last.location /\ k[2] < last.date
  /\ \A k \in DOMAIN files : k[1] # last.location => k[2] < last.date
  /\ last.alerts = <<>>

(* ------------------------------------------------------------------ *)
(* C8: a processLocation call whose gateway fetch fails, or whose       *)
(* payload yields no temperature, emits no event and leaves every row   *)
(* of the store, of this and of every other location, as it was.        *)
(* ------------------------------------------------------------------ *)
C8_FailedFetchLeavesState ==
  (last.kind # "none" /\ (~last.gatewayOk \/ ~last.hasTemp)) =>
    /\ last.kind \in {"fetch_failed", "no_temp"}
    /\ last.alerts = <<>>
    /\ files = last.filesBefore
    /\ trail # <<>> => /\ allAlerts = last.collected
                       /\ trail[Len(trail)].alerts = <<>>

\* a cycle in which one location's payload had no temperature and the
\* next one's fetch failed, with rows in the store
C8_Witness ==
  /\ Len(trail) = 2
  /\ trail[1].kind = "no_temp"
  /\ trail[2].kind = "fetch_failed"
  /\ last.kind = "fetch_failed"
  /\ ~last.gatewayOk
  /\ Cardinality(DOMAIN files) >= 2

(* ------------------------------------------------------------------ *)
(* C9: within a poll cycle a failed fetch or a thrown exception at one  *)
(* location never keeps the remaining configured locations from being   *)
(* processed in that cycle, and the events collected from the other     *)
(* locations are still dispatched.                                      *)
(* ------------------------------------------------------------------ *)
RECURSIVE CollectedFrom(_)
CollectedFrom(entries) ==
  IF entries = <<>> THEN <<>>
  ELSE entries[1].alerts \o CollectedFrom(Tail(entries))

MessagesOf(alerts) ==
  [i \in 1..Len(alerts) |-> [message |-> alerts[i],
                             marketId |-> alerts[i].location]]

CycleOver == pc = "idle" /\ cycles > 0

C9_FailureDoesNotAbortCycle ==
  /\ (pc \in {"fetch", "await"} /\ trail # <<>>) =>
       /\ Len(trail) < NLoc
       /\ idx = Len(trail) + 1
  /\ (pc = "dispatch" \/ CycleOver) =>
       { trail[i].location : i \in 1..Len(trail) } = LocationIds
  /\ CycleOver => outbox = MessagesOf(CollectedFrom(trail))

\* a finished cycle: the first location threw, the second was processed
\* and its alert was broadcast
C9_Witness ==
  /\ CycleOver
  /\ trail[1].kind = "threw"
  /\ trail[2].kind = "reading"
  /\ trail[2].alerts # <<>>
  /\ Len(outbox) = 1
  /\ outbox[1].marketId = trail[2].location

(* ------------------------------------------------------------------ *)
(* C10: a poll cycle processes the configured locations one at a time   *)
(* in configuration order; it dispatches the collected events only      *)
(* after the last location has been processed and its row persisted,    *)
(* no alert being broadcast while a location is still unprocessed, and  *)
(* it dispatches them in the order they were collected.                 *)
(* ------------------------------------------------------------------ *)
C10_DispatchAfterAllInOrder ==
  /\ Len(trail) <= NLoc
  /\ \A i \in 1..Len(trail) : trail[i].location = locations[i].id
  /\ trail # <<>> => allAlerts = CollectedFrom(trail)
  /\ Len(trail) < NLoc => outbox = <<>>
  /\ outbox # <<>> =>
       /\ pc \in {"dispatch", "idle"}
       /\ outbox = SubSeq(MessagesOf(allAlerts), 1, sentIdx - 1)
       /\ \A i \in 1..Len(outbox) :
            LET a == outbox[i].message
                k == <<a.location, a.date>>
            IN  /\ k \in DOMAIN files
                /\ \E j \in 1..Len(files[k].history) :
                     files[k].history[j] = HistoryEntry(a.temp, a.time)

\* a finished cycle that broadcast one alert of each location, the first
\* configured location's first
C10_Witness ==
  /\ CycleOver
  /\ Len(outbox) = 2
  /\ outbox[1].marketId = locations[1].id
  /\ outbox[2].marketId = locations[2].id
  /\ outbox[1].message.type # outbox[2].message.type

(* ------------------------------------------------------------------ *)
(* scheduleNextPoll and getMillisUntilNextPoll: the poll timer.         *)
(* timer.now is the wall clock in milliseconds since the top of an      *)
(* hour, as new Date() splits it into minutes, seconds, milliseconds.   *)
(* ------------------------------------------------------------------ *)
MaxPolls == 2

MsPerSecond == 10 * 10 * 10
MsPerMinute == 60 * MsPerSecond
MsPerHour == 60 * MsPerMinute
PollPeriodMinutes == 5
PollOffsetSeconds == 10

getMinutes(t) == (t \div MsPerMinute) % 60
getSeconds(t) == (t \div MsPerSecond) % 60
getMilliseconds(t) == t % MsPerSecond

\* Math.ceil(minutes / 5) * 5
CeilToPeriod(minutes) ==
  ((minutes + PollPeriodMinutes - 1) \div PollPeriodMinutes) * PollPeriodMinutes

\* the delay without the roll to the next period
getMillisNoRollForward(t) ==
  LET minutes == getMinutes(t)
      seconds == getSeconds(t)
      ms == getMilliseconds(t)
      nextInterval == CeilToPeriod(minutes)
      minutesToWait == nextInterval - minutes
  IN  (minutesToWait * 60 * 1000) - (seconds * 1000) - ms
        + (PollOffsetSeconds * 1000)

\* lines 1770-1789
getMillisUntilNextPoll(t) ==
  LET minutes == getMinutes(t)
      seconds == getSeconds(t)
      ms == getMilliseconds(t)
      nextInterval == CeilToPeriod(minutes)
      minutesToWait == nextInterval - minutes
      targetMs == (minutesToWait * 60 * 1000) - (seconds * 1000) - ms
                    + (PollOffsetSeconds * 1000)
  IN  IF targetMs <= 0 THEN targetMs + PollPeriodMinutes * 60 * 1000
      ELSE targetMs

\* the instants the service may be started at: every minute and second of
\* the hour, at the edges and the middle of the second
StartMillis == {0, 1, 500, 999}
StartInstants ==
  { m * MsPerMinute + sec * MsPerSecond + ms :
      m \in 0..59, sec \in 0..59, ms \in StartMillis }

\* how long after the timer's target the cycle it runs is over
PollDurations == {0, 1, 999, 20 * MsPerSecond, 4 * MsPerMinute + 50 * MsPerSecond,
                  5 * MsPerMinute, 7 * MsPerMinute + 1}

SchedInit ==
  /\ PollInit
  /\ ProbeIdle
  /\ ZoneIdle
  /\ TrackIdle
  /\ SinkIdle
  /\ timer \in [now : StartInstants, armed : {FALSE}, msUntilNext : {0},
                polls : {0}]

\* scheduleNextPoll: lines 1794-1804, the timer is armed
scheduleNextPoll ==
  /\ ~timer.armed
  /\ timer' = [timer EXCEPT !.armed = TRUE,
                            !.msUntilNext = getMillisUntilNextPoll(timer.now)]
  /\ UNCHANGED << pollVars, probe, zoneVars, trackVars, sinkVars >>

\* the timer fires, pollAllLocations runs to its end
TimerFires ==
  /\ timer.armed
  /\ timer.polls < MaxPolls
  /\ \E took \in PollDurations :
       timer' = [now |-> (timer.now + timer.msUntilNext + took) % MsPerHour,
                 armed |-> FALSE,
                 msUntilNext |-> timer.msUntilNext,
                 polls |-> timer.polls + 1]
  /\ UNCHANGED << pollVars, probe, zoneVars, trackVars, sinkVars >>

SchedNext ==
  \/ scheduleNextPoll
  \/ TimerFires

SchedSpec == SchedInit /\ [][SchedNext]_vars

\* the delay to the 10th second of the nearest 5-minute boundary: of this
\* minute if it is a multiple of 5, of the next such minute otherwise
RawDelay(t) ==
  LET period == PollPeriodMinutes * MsPerMinute
      into == t % period
  IN  IF getMinutes(t) % PollPeriodMinutes = 0
      THEN PollOffsetSeconds * MsPerSecond - into
      ELSE period - into + PollOffsetSeconds * MsPerSecond

MaxSeriesLen == 3

\* '1:00 PM', '2:00 PM', '12:00 AM', and '14:00', which has no AM/PM
SeriesTimes == { TimeStr(1, 0, "PM"), TimeStr(2, 0, "PM"), TimeStr(12, 0, "AM"),
                 TimeStr(14, 0, "") }

SeriesEntries == { Entry(t, time) : t \in Temps, time \in SeriesTimes }

RECURSIVE SeqsUpTo(_, _)
SeqsUpTo(S, n) ==
  IF n = 0 THEN { <<>> }
  ELSE LET shorter == SeqsUpTo(S, n - 1)
       IN  shorter \cup { Append(q, x) : q \in shorter, x \in S }

HourlySeries == SeqsUpTo(SeriesEntries, MaxSeriesLen)

\* the loop of findHighTempTime; acc is [any, maxTemp, maxTimeHour], any
\* FALSE standing for maxTemp = -Infinity
RECURSIVE HighTempScan(_, _, _)
HighTempScan(hourlyData, i, acc) ==
  IF i > Len(hourlyData) THEN acc
  ELSE LET entry == hourlyData[i]
           parsed == parseTimeString(entry.time)
       IN  IF ~acc.any \/ entry.temperature_c > acc.maxTemp
           THEN HighTempScan(hourlyData, i + 1,
                  [any |-> TRUE, maxTemp |-> entry.temperature_c,
                   maxTimeHour |-> IF parsed # NoMatch THEN parsed.hours
                                   ELSE acc.maxTimeHour])
           ELSE HighTempScan(hourlyData, i + 1, acc)

\* lines 880-901: the hour of the daily high, Null for null
findHighTempTime(hourlyData) ==
  IF Len(hourlyData) = 0 THEN Null
  ELSE HighTempScan(hourlyData, 1,
                    [any |-> FALSE, maxTemp |-> 0, maxTimeHour |-> Null]).maxTimeHour

\* Math.max(...hourlyData.map(h => h.temperature_c))
RECURSIVE MaxTemperature(_)
MaxTemperature(hourlyData) ==
  IF Len(hourlyData) = 1 THEN hourlyData[1].temperature_c
  ELSE Max2(hourlyData[1].temperature_c, MaxTemperature(Tail(hourlyData)))

\* hourlyData.findIndex(h => h.temperature_c === maxTemp), 0 for -1
RECURSIVE findIndex(_, _, _)
findIndex(hourlyData, maxTemp, i) ==
  IF i > Len(hourlyData) THEN 0
  ELSE IF hourlyData[i].temperature_c = maxTemp THEN i
  ELSE findIndex(hourlyData, maxTemp, i + 1)

\* a count that goes on past a lower reading
RECURSIVE CountAllAtMax(_, _, _, _)
CountAllAtMax(hourlyData, maxTemp, i, sustainedCount) ==
  IF i > Len(hourlyData) THEN sustainedCount
  ELSE IF hourlyData[i].temperature_c = maxTemp
       THEN CountAllAtMax(hourlyData, maxTemp, i + 1, sustainedCount + 1)
       ELSE CountAllAtMax(hourlyData, maxTemp, i + 1, sustainedCount)

\* the counting loop of countSustainedHighReadings, lines 917-926
RECURSIVE CountAtMax(_, _, _, _)
CountAtMax(hourlyData, maxTemp, i, sustainedCount) ==
  IF i > Len(hourlyData) THEN sustainedCount
  ELSE IF hourlyData[i].temperature_c = maxTemp
       THEN CountAtMax(hourlyData, maxTemp, i + 1, sustainedCount + 1)
       ELSE IF hourlyData[i].temperature_c < maxTemp THEN sustainedCount
       ELSE CountAtMax(hourlyData, maxTemp, i + 1, sustainedCount)

\* a count of every reading at the maximum, the lower ones between them
\* skipped
countEveryHighReading(hourlyData) ==
  IF Len(hourlyData) = 0 THEN 0
  ELSE LET maxTemp == MaxTemperature(hourlyData)
           firstMaxIndex == findIndex(hourlyData, maxTemp, 1)
       IN  IF firstMaxIndex = 0 THEN 0
           ELSE CountAllAtMax(hourlyData, maxTemp, firstMaxIndex, 0)

\* lines 903-929
countSustainedHighReadings(hourlyData) ==
  IF Len(hourlyData) = 0 THEN 0
  ELSE LET maxTemp == MaxTemperature(hourlyData)
           firstMaxIndex == findIndex(hourlyData, maxTemp, 1)
       IN  IF firstMaxIndex = 0 THEN 0
           ELSE CountAtMax(hourlyData, maxTemp, firstMaxIndex, 0)

\* a day's series arrives and is analysed, as calculateAttentionZone does
\* for each day it fetches (lines 1017-1018)
HourlyInit ==
  /\ PollInit
  /\ TimerIdle
  /\ ZoneIdle
  /\ TrackIdle
  /\ SinkIdle
  /\ probe \in [fn : {"analyseDay"}, input : HourlySeries, output : {<<>>},
                done : {FALSE}]

AnalyseDay ==
  /\ probe.fn = "analyseDay"
  /\ ~probe.done
  /\ probe' = [probe EXCEPT
       !.output = [highHour |-> findHighTempTime(probe.input),
                   sustainedCount |-> countSustainedHighReadings(probe.input)],
       !.done = TRUE]
  /\ UNCHANGED << pollVars, timer, zoneVars, trackVars, sinkVars >>

HourlyNext == AnalyseDay

HourlySpec == HourlyInit /\ [][HourlyNext]_vars

\* the position of the first entry at the maximum of a series
FirstAtMax(series) ==
  CHOOSE i \in 1..Len(series) :
    /\ \A j \in 1..Len(series) : series[j].temperature_c <= series[i].temperature_c
    /\ \A j \in 1..(i - 1) : series[j].temperature_c < series[i].temperature_c

\* the hour a time string names, Null if it names none
HourNamed(time) ==
  IF time.p \in {"PM", "pm"} THEN (time.h % 12) + 12
  ELSE IF time.p \in {"AM", "am"} THEN time.h % 12
  ELSE Null

Analysed == probe.fn = "analyseDay" /\ probe.done /\ Len(probe.input) > 0

(* ------------------------------------------------------------------ *)
(* C14: for every non-empty hourly series, whatever its temperatures    *)
(* and time strings, findHighTempTime returns the hour of the first     *)
(* entry whose temperature is the maximum of the series.                *)
(* ------------------------------------------------------------------ *)
C14_HourOfFirstMax ==
  Analysed =>
    probe.output.highHour = HourNamed(probe.input[FirstAtMax(probe.input)].time)

(* ------------------------------------------------------------------ *)
(* C15: for every non-empty hourly series countSustainedHighReadings    *)
(* returns the length of the run of entries at the maximum that starts  *)
(* at the first occurrence of the maximum and ends before the first     *)
(* lower entry or at the end of the series; it is at least 1.           *)
(* ------------------------------------------------------------------ *)
C15_SustainedRun ==
  Analysed =>
    LET series == probe.input
        first == FirstAtMax(series)
        maxTemp == series[first].temperature_c
        n == probe.output.sustainedCount
    IN  /\ n >= 1
        /\ first + n - 1 <= Len(series)
        /\ \A j \in first..(first + n - 1) : series[j].temperature_c = maxTemp
        /\ first + n <= Len(series) => series[first + n].temperature_c < maxTemp

\* maximum, lower reading, maximum again: the run is 1
C15_Witness ==
  /\ Analysed
  /\ Len(probe.input) = 3
  /\ probe.input[1].temperature_c = probe.input[3].temperature_c
  /\ probe.input[2].temperature_c < probe.input[1].temperature_c
  /\ probe.output.sustainedCount = 1

(* ------------------------------------------------------------------ *)
(* calculateAttentionZone: the attention window of a location from the  *)
(* peak hours of the last 7 days, by the analysis endpoint or, failing  *)
(* that, by one fetch per day.                                          *)
(* ------------------------------------------------------------------ *)
HistoryDays == 7
DefaultSustainedCount == 4

\* the zone returned without history: 1PM-4PM
DefaultZone == Zone(13, 16)

RECURSIVE SumOf(_)
SumOf(xs) == IF xs = <<>> THEN 0 ELSE xs[1] + SumOf(Tail(xs))

\* the mean truncated instead of rounded
MeanTruncated(xs) == SumOf(xs) \div Len(xs)

\* Math.round(xs.reduce((a, b) => a + b, 0) / xs.length), xs of naturals
MeanRounded(xs) == (2 * SumOf(xs) + Len(xs)) \div (2 * Len(xs))

\* a result without history that leaves the statistics unset
ZoneResultStatsOnlyWithHistory(highTimes, sustainedCounts) ==
  IF Len(highTimes) = 0
  THEN [zone |-> DefaultZone,
        stats |-> [avgSustainedCount |-> Null, data |-> <<>>]]
  ELSE LET avgHour == MeanRounded(highTimes)
           avgSustained == IF Len(sustainedCounts) > 0
                           THEN MeanRounded(sustainedCounts)
                           ELSE DefaultSustainedCount
       IN  [zone |-> Zone(Max2(0, avgHour - 1), Min2(23, avgHour + 2)),
            stats |-> [avgSustainedCount |-> avgSustained,
                       data |-> sustainedCounts]]

\* lines 1036-1064: the zone and the statistics from the days collected
ZoneResult(highTimes, sustainedCounts) ==
  IF Len(highTimes) = 0
  THEN [zone |-> DefaultZone,
        stats |-> [avgSustainedCount |-> DefaultSustainedCount, data |-> <<>>]]
  ELSE LET avgHour == MeanRounded(highTimes)
           avgSustained == IF Len(sustainedCounts) > 0
                           THEN MeanRounded(sustainedCounts)
                           ELSE DefaultSustainedCount
       IN  [zone |-> Zone(Max2(0, avgHour - 1), Min2(23, avgHour + 2)),
            stats |-> [avgSustainedCount |-> avgSustained,
                       data |-> sustainedCounts]]

\* a day of the analysis response; NoTime and Null stand for absent fields,
\* <<>> for an absent or empty hourly_data
NoTime == TimeStr(Null, Null, "")
Day(high_time, max_time, hourly_data, sustained_count, high_duration_readings) ==
  [high_time |-> high_time, max_time |-> max_time, hourly_data |-> hourly_data,
   sustained_count |-> sustained_count,
   high_duration_readings |-> high_duration_readings]

\* lines 945-974, one day: [highHour, sustainedCount]
parseDay(day) ==
  LET parsedHigh == parseTimeString(day.high_time)
      parsedMax == parseTimeString(day.max_time)
      highHour ==
        IF day.high_time # NoTime
        THEN (IF parsedHigh # NoMatch THEN parsedHigh.hours ELSE Null)
        ELSE IF day.max_time # NoTime
        THEN (IF parsedMax # NoMatch THEN parsedMax.hours ELSE Null)
        ELSE IF day.hourly_data # <<>>
        THEN findHighTempTime(day.hourly_data)
        ELSE Null
      counted ==
        IF day.high_time = NoTime /\ day.max_time = NoTime
           /\ day.hourly_data # <<>>
        THEN countSustainedHighReadings(day.hourly_data)
        ELSE 0
      sustainedCount ==
        IF day.sustained_count # Null THEN day.sustained_count
        ELSE IF day.high_duration_readings # Null
        THEN day.high_duration_readings
        ELSE counted
  IN  [highHour |-> highHour, sustainedCount |-> sustainedCount]

\* parseAnalysisData, lines 935-980; isArray FALSE is a response whose
\* days are no array
RECURSIVE parseDays(_, _, _)
parseDays(dailyData, i, acc) ==
  IF i > Len(dailyData) THEN acc
  ELSE LET d == parseDay(dailyData[i])
       IN  parseDays(dailyData, i + 1,
             IF d.highHour # Null
             THEN [highTimes |-> Append(acc.highTimes, d.highHour),
                   sustainedCounts |->
                     IF d.sustainedCount > 0
                     THEN Append(acc.sustainedCounts, d.sustainedCount)
                     ELSE acc.sustainedCounts]
             ELSE acc)

parseAnalysisData(analysisData) ==
  IF ~analysisData.isArray THEN [highTimes |-> <<>>, sustainedCounts |-> <<>>]
  ELSE parseDays(analysisData.days, 1,
                 [highTimes |-> <<>>, sustainedCounts |-> <<>>])

Analysis(ok, isArray, days) == [ok |-> ok, isArray |-> isArray, days |-> days]

\* what fetchTemperatureAnalysis resolves to in the model: a failure
\* (null), days that are no array, no days, and days in each of the shapes
\* parseAnalysisData reads
AnalysisOutcomes ==
  { Analysis(FALSE, FALSE, <<>>),
    Analysis(TRUE, FALSE, <<>>),
    Analysis(TRUE, TRUE, <<>>),
    Analysis(TRUE, TRUE, << Day(TimeStr(14, 0, ""), NoTime, <<>>, 3, Null) >>),
    Analysis(TRUE, TRUE, << Day(TimeStr(2, 0, "PM"), NoTime, <<>>, 3, Null),
                            Day(NoTime, TimeStr(1, 0, "PM"), <<>>, Null, 2) >>),
    Analysis(TRUE, TRUE, << Day(TimeStr(11, 0, "PM"), NoTime, <<>>, 0, Null) >>),
    Analysis(TRUE, TRUE,
             << Day(NoTime, NoTime, << Entry(MinTemp, TimeStr(12, 0, "PM")),
                                       Entry(MaxTemp, TimeStr(2, 0, "PM")),
                                       Entry(MaxTemp, TimeStr(3, 0, "PM")) >>,
                    Null, Null) >>) }

DayData(ok, hourly_data) == [ok |-> ok, hourly_data |-> hourly_data]

\* what fetchHistoricalData resolves to for a day: a failure (null), a
\* response without hourly_data, and series peaking at 1PM, 2PM (held for
\* two readings), 3PM, midnight, 11PM, and at a time without AM/PM
DayOutcomes ==
  { DayData(FALSE, <<>>),
    DayData(TRUE, <<>>),
    DayData(TRUE, << Entry(MaxTemp, TimeStr(1, 0, "PM")) >>),
    DayData(TRUE, << Entry(MinTemp, TimeStr(12, 0, "PM")),
                     Entry(MaxTemp, TimeStr(2, 0, "PM")),
                     Entry(MaxTemp, TimeStr(3, 0, "PM")) >>),
    DayData(TRUE, << Entry(MaxTemp, TimeStr(3, 0, "PM")),
                     Entry(MinTemp, TimeStr(4, 0, "PM")) >>),
    DayData(TRUE, << Entry(MaxTemp, TimeStr(12, 0, "AM")) >>),
    DayData(TRUE, << Entry(MaxTemp, TimeStr(11, 0, "PM")) >>),
    DayData(TRUE, << Entry(MaxTemp, TimeStr(14, 0, "")) >>) }

\* initAttentionZones reaches a location: nothing is set for it yet
ZoneInit ==
  /\ CycleInit
  /\ attentionZones = << >>
  /\ TimerIdle
  /\ ProbeIdle
  /\ TrackIdle
  /\ SinkIdle
  /\ sustainedHighStats = << >>
  /\ zoneJob \in [pc : {"analysis"}, loc : LocIdx, i : {0}, requests : {0},
                  highTimes : {<<>>}, sustainedCounts : {<<>>}]

MapSet(map, key, value) ==
  [k \in DOMAIN map \cup {key} |-> IF k = key THEN value ELSE map[k]]

\* the end of calculateAttentionZone (lines 1036-1064) and the
\* attentionZones.set of initAttentionZones (line 1077)
ZoneReturn(highTimes, sustainedCounts) ==
  LET r == ZoneResult(highTimes, sustainedCounts)
      id == locations[zoneJob.loc].id
  IN  /\ sustainedHighStats' = MapSet(sustainedHighStats, id, r.stats)
      /\ attentionZones' = MapSet(attentionZones, id, r.zone)
      /\ zoneJob' = [zoneJob EXCEPT !.pc = "done", !.highTimes = highTimes,
                                    !.sustainedCounts = sustainedCounts]

\* lines 990-1008: the analysis endpoint answers
ZoneAnalysis ==
  /\ zoneJob.pc = "analysis"
  /\ \E analysisData \in AnalysisOutcomes :
       LET parsed == IF analysisData.ok THEN parseAnalysisData(analysisData)
                     ELSE [highTimes |-> <<>>, sustainedCounts |-> <<>>]
       IN  IF Len(parsed.highTimes) = 0
           THEN /\ zoneJob' = [zoneJob EXCEPT !.pc = "days", !.i = 1,
                                 !.highTimes = parsed.highTimes,
                                 !.sustainedCounts = parsed.sustainedCounts]
                /\ UNCHANGED << attentionZones, sustainedHighStats >>
           ELSE ZoneReturn(parsed.highTimes, parsed.sustainedCounts)
  /\ UNCHANGED << clk, files, diskFaulty, currentReadings, pc, idx, reqDate,
                  allAlerts, sentIdx, outbox, cycles, processed, trail, last,
                  timer, probe, trackVars, sinkVars >>

\* lines 1011-1033: the fetch for day i answers
ZoneFetchDay ==
  /\ zoneJob.pc = "days"
  /\ zoneJob.i <= HistoryDays
  /\ \E data \in DayOutcomes :
       LET highHour == findHighTempTime(data.hourly_data)
           sustainedCount == countSustainedHighReadings(data.hourly_data)
           usable == data.ok /\ data.hourly_data # <<>> /\ highHour # Null
       IN  zoneJob' = [zoneJob EXCEPT
             !.i = @ + 1,
             !.requests = @ + 1,
             !.highTimes = IF usable THEN Append(@, highHour) ELSE @,
             !.sustainedCounts = IF usable THEN Append(@, sustainedCount) ELSE @]
  /\ UNCHANGED << pollVars, timer, probe, sustainedHighStats, trackVars, sinkVars >>

\* the loop is over
ZoneFinish ==
  /\ zoneJob.pc = "days"
  /\ zoneJob.i > HistoryDays
  /\ ZoneReturn(zoneJob.highTimes, zoneJob.sustainedCounts)
  /\ UNCHANGED << clk, files, diskFaulty, currentReadings, pc, idx, reqDate,
                  allAlerts, sentIdx, outbox, cycles, processed, trail, last,
                  timer, probe, trackVars, sinkVars >>

ZoneNext ==
  \/ ZoneAnalysis
  \/ ZoneFetchDay
  \/ ZoneFinish

ZoneSpec == ZoneInit /\ [][ZoneNext]_vars

ZoneDone == zoneJob.pc = "done"
ZoneLocation == locations[zoneJob.loc].id
Abs(x) == IF x < 0 THEN -x ELSE x

(* ------------------------------------------------------------------ *)
(* C12: from a non-empty list of peak hours calculateAttentionZone      *)
(* returns startHour = max(0, avgHour - 1), endHour = min(23,           *)
(* avgHour + 2), avgHour being the mean of the peak hours rounded to    *)
(* the nearest integer; [13,14,13,15,14,13,14] gives the window         *)
(* [13,16].                                                             *)
(* ------------------------------------------------------------------ *)
C12_ZoneAroundMeanHour ==
  (ZoneDone /\ zoneJob.highTimes # <<>>) =>
    LET hours == zoneJob.highTimes
        zone == attentionZones[ZoneLocation]
    IN  /\ \E avgHour \in 0..23 :
             /\ 2 * Abs(avgHour * Len(hours) - SumOf(hours)) <= Len(hours)
             /\ zone.startHour = (IF avgHour - 1 > 0 THEN avgHour - 1 ELSE 0)
             /\ zone.endHour = (IF avgHour + 2 < 23 THEN avgHour + 2 ELSE 23)
        /\ zone.startMin = 0
        /\ zone.endMin = 0
        /\ hours = <<13, 14, 13, 15, 14, 13, 14>> =>
             zone.startHour = 13 /\ zone.endHour = 16

C12_Witness ==
  /\ ZoneDone
  /\ zoneJob.highTimes = <<13, 14, 13, 15, 14, 13, 14>>
  /\ attentionZones[ZoneLocation].startHour = 13
  /\ attentionZones[ZoneLocation].endHour = 16

(* ------------------------------------------------------------------ *)
(* C13: when neither the analysis query nor any of the 7 per-day        *)
(* fetches yields a day with a usable peak hour, calculateAttentionZone *)
(* returns the window 13..16 and records avgSustainedCount = 4 for the  *)
(* location.                                                            *)
(* ------------------------------------------------------------------ *)
C13_DefaultZone ==
  (ZoneDone /\ zoneJob.highTimes = <<>>) =>
    /\ zoneJob.requests = 7
    /\ attentionZones[ZoneLocation] =
         [startHour |-> 13, startMin |-> 0, endHour |-> 16, endMin |-> 0]
    /\ ZoneLocation \in DOMAIN sustainedHighStats
    /\ sustainedHighStats[ZoneLocation].avgSustainedCount = 4
    /\ sustainedHighStats[ZoneLocation].data = <<>>

C13_Witness ==
  /\ ZoneDone
  /\ zoneJob.highTimes = <<>>
  /\ zoneJob.requests = 7
  /\ sustainedHighStats[ZoneLocation].avgSustainedCount = 4
  /\ attentionZones[ZoneLocation].endHour = 16

(* ------------------------------------------------------------------ *)
(* fetchWeatherData and extractCurrentTemp on their own: one call with  *)
(* every answer of the gateway                                          *)
(* ------------------------------------------------------------------ *)
\* the answers to the first request: 200, any failure, the 400 whose
\* details name the future date
FirstAnswers == {"ok", "error", "future"}

FetchInputs ==
  [first : FirstAnswers, retry : RetryOutcomes, localDate : Dates, data : Payloads]

FetchInit ==
  /\ PollInit
  /\ TimerIdle
  /\ ZoneIdle
  /\ TrackIdle
  /\ SinkIdle
  /\ probe \in [fn : {"fetchWeatherData"}, input : { <<c>> : c \in FetchInputs },
                output : {<<>>}, done : {FALSE}]

\* one call of fetchWeatherData; yesterday is the day before localDate
FetchCall ==
  /\ probe.fn = "fetchWeatherData"
  /\ ~probe.done
  /\ LET c == probe.input[1]
     IN  probe' = [probe EXCEPT
           !.output = fetchWeatherData(c.first, c.retry, c.localDate,
                                       c.localDate - 1, c.data),
           !.done = TRUE]
  /\ UNCHANGED << pollVars, timer, zoneVars, trackVars, sinkVars >>

FetchNext == FetchCall

FetchSpec == FetchInit /\ [][FetchNext]_vars

Fetched == probe.fn = "fetchWeatherData" /\ probe.done

(* ------------------------------------------------------------------ *)
(* C16: fetchWeatherData issues at most two requests per call; the      *)
(* second, for yesterday's date, is issued exactly when the first is    *)
(* rejected with the future-date error; a successful retry is returned  *)
(* with isFallback = true and localDate = yesterday; a failed retry or  *)
(* any other failure is a failure result; a first-try success is never  *)
(* marked as fallback.                                                  *)
(* ------------------------------------------------------------------ *)
C16_OneRetryOnFutureDate ==
  Fetched =>
    LET c == probe.input[1]
        r == probe.output
    IN  /\ r.requests \in {1, 2}
        /\ (r.requests = 2) <=> (c.first = "future")
        /\ (c.first = "future" /\ c.retry = "ok") =>
             /\ r.success
             /\ r.isFallback
             /\ r.localDate = c.localDate - 1
             /\ r.data = c.data
        /\ (c.first = "future" /\ c.retry = "error") => ~r.success
        /\ (c.first = "error") => ~r.success
        /\ (c.first = "ok") =>
             /\ r.success
             /\ ~r.isFallback
             /\ r.localDate = c.localDate
             /\ r.data = c.data

C16_Witness ==
  /\ Fetched
  /\ probe.input[1].first = "future"
  /\ probe.input[1].retry = "ok"
  /\ probe.output.isFallback
  /\ probe.output.requests = 2

ExtractInputs ==
  { Payload(cur, hourly, celsius, temp, Null) :
      cur \in {Null, MinTemp}, hourly \in HourlySeries,
      celsius \in {Null, MaxTemp - 1}, temp \in {Null, MaxTemp} }

ExtractInit ==
  /\ PollInit
  /\ TimerIdle
  /\ ZoneIdle
  /\ TrackIdle
  /\ SinkIdle
  /\ probe \in [fn : {"extractCurrentTemp"}, input : { <<d>> : d \in ExtractInputs },
                output : {<<>>}, done : {FALSE}]

ExtractCall ==
  /\ probe.fn = "extractCurrentTemp"
  /\ ~probe.done
  /\ probe' = [probe EXCEPT !.output = extractCurrentTemp(probe.input[1]),
                            !.done = TRUE]
  /\ UNCHANGED << pollVars, timer, zoneVars, trackVars, sinkVars >>

ExtractNext == ExtractCall

ExtractSpec == ExtractInit /\ [][ExtractNext]_vars

Extracted == probe.fn = "extractCurrentTemp" /\ probe.done

TimeOfDay(time) == parseTimeString(time).hours * 60 + parseTimeString(time).minutes

\* the last entry of the series is also the one with the latest time
LatestIsLast(series) ==
  /\ series # <<>>
  /\ parseTimeString(series[Len(series)].time) # NoMatch
  /\ \A i \in 1..(Len(series) - 1) :
       \/ parseTimeString(series[i].time) = NoMatch
       \/ TimeOfDay(series[i].time) < TimeOfDay(series[Len(series)].time)

(* ------------------------------------------------------------------ *)
(* C17: extractCurrentTemp returns the temperature of the most recent   *)
(* hourly entry whenever the payload has an hourly series with a        *)
(* numeric latest entry, even if a current temperature is present too;  *)
(* without an hourly series it returns the current field, then another  *)
(* scalar temperature field, then null.                                 *)
(* ------------------------------------------------------------------ *)
C17_HourlyBeforeCurrent ==
  Extracted =>
    LET data == probe.input[1]
        series == data.hourly_data
        r == probe.output
    IN  /\ ~r.threw
        /\ LatestIsLast(series) => r.temp = series[Len(series)].temperature_c
        /\ series = <<>> =>
             r.temp = (IF data.current # Null THEN data.current
                       ELSE IF data.temperature_celsius # Null
                            THEN data.temperature_celsius
                       ELSE data.temp)

(* ------------------------------------------------------------------ *)
(* Live tracking (telegram.js): the /track, /untrack and /untrackall    *)
(* handlers of one chat and the interval callbacks of startTracking.    *)
(* A session object is named by the message_id of its placeholder, an   *)
(* interval by the /track command that set it, and a Map of sessions by *)
(* the /track command that created it.                                  *)
(* ------------------------------------------------------------------ *)
\* what the live tracking never touches
restVars == << pollVars, timer, probe, zoneVars, sinkVars >>

Registry ==
  [activeTrackings |-> activeTrackings, trackingIntervals |-> trackingIntervals,
   liveTimers |-> liveTimers]

Install(st) ==
  /\ activeTrackings' = st.activeTrackings
  /\ trackingIntervals' = st.trackingIntervals
  /\ liveTimers' = st.liveTimers

\* clearInterval
clearInterval(timers, id) == { t \in timers : t.id # id }

\* a stopTracking that leaves the interval running
stopTrackingKeepsInterval(st, locationId) ==
  LET sessions == [st.activeTrackings.sessions EXCEPT ![locationId] = 0]
  IN  IF ~st.activeTrackings.present THEN st
      ELSE IF sessions = NoSessions THEN [st EXCEPT !.activeTrackings = NoChat]
      ELSE [st EXCEPT !.activeTrackings.sessions = sessions]

\* stopTracking(chatId, locationId)
stopTracking(st, locationId) ==
  LET interval == st.trackingIntervals[locationId]
      cleared == IF interval # 0
                 THEN [st EXCEPT !.liveTimers = clearInterval(@, interval),
                                 !.trackingIntervals[locationId] = 0]
                 ELSE st
      sessions == [cleared.activeTrackings.sessions EXCEPT ![locationId] = 0]
  IN  IF ~cleared.activeTrackings.present THEN cleared
      ELSE IF sessions = NoSessions
           THEN [cleared EXCEPT !.activeTrackings = NoChat]
      ELSE [cleared EXCEPT !.activeTrackings.sessions = sessions]

\* the synchronous part of startTracking: the interval n replaces the one
\* registered for the pair
startTracking(st, n, locationId) ==
  [st EXCEPT
     !.liveTimers = clearInterval(@, st.trackingIntervals[locationId])
                      \cup { [id |-> n, loc |-> locationId] },
     !.trackingIntervals[locationId] = n]

\* the loop of /untrackall over the keys of the chat's Map
RECURSIVE stopEach(_, _)
stopEach(st, keys) ==
  IF keys = {} THEN st
  ELSE LET locationId == CHOOSE l \in keys : TRUE
       IN  stopEach(stopTracking(st, locationId), keys \ {locationId})

\* a session object that no Map and no callback refers to can no longer
\* be read: its lastTemp is dropped
Referenced(n, chat, callbacks) ==
  \/ \E l \in TrackedLocations : chat.present /\ chat.sessions[l] = n
  \/ \E s \in DOMAIN callbacks : callbacks[s].obj = n
Collect(objects, chat, callbacks) ==
  [n \in DOMAIN objects |->
     IF Referenced(n, chat, callbacks) THEN objects[n] ELSE Null]

\* a /track that does not look for an existing session
TrackWithoutLooking(locationId) ==
  /\ trackCount < MaxTrackRequests
  /\ trackCount' = trackCount + 1
  /\ activeTrackings' =
       (IF activeTrackings.present THEN activeTrackings
        ELSE [present |-> TRUE, map |-> trackCount + 1, sessions |-> NoSessions])
  /\ trackRequests' = trackRequests \cup
       { [n |-> trackCount + 1, loc |-> locationId, map |-> activeTrackings'.map] }
  /\ UNCHANGED << trackingIntervals, liveTimers, sessionObjects, ticks,
                  lastTrack, lastTick >>
  /\ UNCHANGED restVars

\* /track <city> up to the await of the placeholder
Track(locationId) ==
  /\ LET created == ~activeTrackings.present
         chat == IF created
                 THEN [present |-> TRUE, map |-> trackCount + 1, sessions |-> NoSessions]
                 ELSE activeTrackings
     IN  IF chat.sessions[locationId] # 0
         THEN /\ lastTrack' = [kind |-> "already", placeholders |-> 0]
              /\ UNCHANGED << activeTrackings, trackingIntervals, liveTimers,
                              sessionObjects, trackRequests, ticks, trackCount,
                              lastTick >>
         ELSE /\ trackCount < MaxTrackRequests
              /\ trackCount' = trackCount + 1
              /\ activeTrackings' = chat
              /\ trackRequests' = trackRequests \cup
                   { [n |-> trackCount + 1, loc |-> locationId, map |-> chat.map] }
              /\ UNCHANGED << trackingIntervals, liveTimers, sessionObjects, ticks,
                              lastTrack, lastTick >>
  /\ UNCHANGED restVars

\* the placeholder is sent (or its send fails and the handler ends):
\* userTrackings.set on the Map the handler holds, then startTracking
TrackPlaceholder(r, delivered) ==
  /\ r \in trackRequests
  /\ trackRequests' = trackRequests \ {r}
  /\ IF ~delivered
     THEN /\ lastTrack' = [kind |-> "failed", placeholders |-> 0]
          /\ UNCHANGED << activeTrackings, trackingIntervals, liveTimers,
                          sessionObjects, ticks >>
     ELSE LET held == activeTrackings.present /\ activeTrackings.map = r.map
              stored == IF held
                        THEN [Registry EXCEPT !.activeTrackings.sessions[r.loc] = r.n]
                        ELSE Registry
          IN  /\ Install(startTracking(stored, r.n, r.loc))
              /\ UNCHANGED ticks
              /\ sessionObjects' =
                   Collect([sessionObjects EXCEPT ![r.n] = Null],
                           activeTrackings', ticks')
              /\ lastTrack' = [kind |-> "started", placeholders |-> 1]
  /\ UNCHANGED << trackCount, lastTick >>
  /\ UNCHANGED restVars

\* the chat's Map holds the session object n for the location
Registered(chat, locationId, n) ==
  chat.present /\ n # 0 /\ chat.sessions[locationId] = n

\* the reply of /untrack (lines 276-279): the same text whether or not a
\* session was being tracked
untrackReply(tracked) == "stopped"

\* /untrack <city>
Untrack(locationId) ==
  /\ Install(stopTracking(Registry, locationId))
  /\ UNCHANGED ticks
  /\ sessionObjects' = Collect(sessionObjects, activeTrackings', ticks')
  /\ lastTrack' = [kind |-> untrackReply(Registered(activeTrackings, locationId,
                                            activeTrackings.sessions[locationId])),
                   placeholders |-> 0]
  /\ UNCHANGED << trackRequests, trackCount, lastTick >>
  /\ UNCHANGED restVars

\* /untrackall
UntrackAll ==
  /\ activeTrackings.present
  /\ LET keys == { l \in TrackedLocations : activeTrackings.sessions[l] # 0 }
         stopped == stopEach(Registry, keys)
     IN  Install([stopped EXCEPT !.activeTrackings = NoChat])
  /\ UNCHANGED ticks
  /\ sessionObjects' = Collect(sessionObjects, activeTrackings', ticks')
  /\ UNCHANGED << trackRequests, trackCount, lastTrack, lastTick >>
  /\ UNCHANGED restVars

FreeSlots == { s \in DOMAIN ticks : ticks[s].pc = "idle" }

\* an interval fires: the callback up to its first await
TickFire(t) ==
  /\ t \in liveTimers
  /\ IF ~activeTrackings.present \/ activeTrackings.sessions[t.loc] = 0
     THEN /\ liveTimers' = clearInterval(liveTimers, t.id)
          /\ trackingIntervals' = [trackingIntervals EXCEPT ![t.loc] = 0]
          /\ UNCHANGED ticks
     ELSE /\ FreeSlots # {}
          /\ LET s == CHOOSE x \in FreeSlots : \A y \in FreeSlots : x <= y
             IN  ticks' = [ticks EXCEPT ![s] =
                   [NoTick EXCEPT !.pc = "fetch", !.timer = t.id, !.loc = t.loc,
                                  !.obj = activeTrackings.sessions[t.loc]]]
          /\ UNCHANGED << liveTimers, trackingIntervals >>
  /\ UNCHANGED << activeTrackings, sessionObjects, trackRequests, trackCount,
                  lastTrack, lastTick >>
  /\ UNCHANGED restVars

\* the callback is over
TickEnds(s, edits, editOk, sends, sendOk) ==
  /\ ticks' = [ticks EXCEPT ![s] = NoTick]
  /\ lastTick' = [fetched |-> ticks[s].fetched, changed |-> ticks[s].tempChanged,
                  edits |-> edits, editOk |-> editOk,
                  sends |-> sends, sendOk |-> sendOk]

\* a comparison that takes null for a temperature
tempDiffers(lastTemp, currentTemp) == lastTemp # currentTemp

\* tempChanged (line 394)
tempChanged(lastTemp, currentTemp) == lastTemp # Null /\ lastTemp # currentTemp

\* fetchWeatherData answers: lines 347-394
TickFetched(s) ==
  /\ ticks[s].pc = "fetch"
  /\ \E first \in FirstAnswers, retry \in RetryOutcomes, data \in Payloads,
        localDate \in { d \in Dates : d - 1 \in Dates } :
       LET result == fetchWeatherData(first, retry, localDate, localDate - 1, data)
           extracted == extractCurrentTemp(result.data)
           lastTemp == sessionObjects[ticks[s].obj]
       IN  IF ~result.success
           THEN /\ ticks' = [ticks EXCEPT ![s].pc = "edit", ![s].fetched = "failed"]
                /\ UNCHANGED lastTick
           ELSE IF extracted.threw
           THEN /\ ticks' = [ticks EXCEPT ![s] = NoTick]
                /\ lastTick' = [NoLastTick EXCEPT !.fetched = "threw"]
           ELSE IF extracted.temp = Null
           THEN /\ ticks' = [ticks EXCEPT ![s].pc = "edit", ![s].fetched = "none"]
                /\ UNCHANGED lastTick
           ELSE /\ ticks' = [ticks EXCEPT ![s].pc = "edit", ![s].fetched = "temp",
                               ![s].temp = extracted.temp, ![s].prev = lastTemp,
                               ![s].tempChanged = tempChanged(lastTemp, extracted.temp)]
                /\ UNCHANGED lastTick
  /\ UNCHANGED << activeTrackings, trackingIntervals, liveTimers >>
  /\ sessionObjects' = Collect(sessionObjects, activeTrackings', ticks')
  /\ UNCHANGED << trackRequests, trackCount, lastTrack >>
  /\ UNCHANGED restVars

\* a callback that stops the tracking after any edit
TickEditedStopsTracking(s, ok) ==
  /\ ticks[s].pc = "edit"
  /\ Install(stopTracking(Registry, ticks[s].loc))
  /\ TickEnds(s, 1, ok, 0, FALSE)
  /\ sessionObjects' = Collect(sessionObjects, activeTrackings', ticks')
  /\ UNCHANGED << trackRequests, trackCount, lastTrack >>
  /\ UNCHANGED restVars

\* editMessageText answers: lines 352-368, 376-391, 397-413, 433-435
TickEdited(s, ok) ==
  /\ ticks[s].pc = "edit"
  /\ IF ~ok
     THEN /\ Install(stopTracking(Registry, ticks[s].loc))
          /\ TickEnds(s, 1, FALSE, 0, FALSE)
          /\ sessionObjects' = Collect(sessionObjects, activeTrackings', ticks')
     ELSE /\ UNCHANGED << activeTrackings, trackingIntervals, liveTimers >>
          /\ IF ticks[s].fetched # "temp"
             THEN /\ TickEnds(s, 1, TRUE, 0, FALSE)
                  /\ sessionObjects' =
                       Collect(sessionObjects, activeTrackings', ticks')
             ELSE IF ticks[s].tempChanged
             THEN /\ ticks' = [ticks EXCEPT ![s].pc = "send"]
                  /\ UNCHANGED << sessionObjects, lastTick >>
             ELSE /\ TickEnds(s, 1, TRUE, 0, FALSE)
                  /\ sessionObjects' =
                       Collect([sessionObjects EXCEPT ![ticks[s].obj] = ticks[s].temp],
                               activeTrackings', ticks')
  /\ UNCHANGED << trackRequests, trackCount, lastTrack >>
  /\ UNCHANGED restVars

\* the send of the new message answers: lines 416-435
TickSent(s, ok) ==
  /\ ticks[s].pc = "send"
  /\ TickEnds(s, 1, TRUE, 1, ok)
  /\ UNCHANGED << activeTrackings, trackingIntervals, liveTimers >>
  /\ sessionObjects' =
       Collect(IF ok THEN [sessionObjects EXCEPT ![ticks[s].obj] = ticks[s].temp]
               ELSE sessionObjects,
               activeTrackings', ticks')
  /\ UNCHANGED << trackRequests, trackCount, lastTrack >>
  /\ UNCHANGED restVars

TrackNext ==
  \/ \E locationId \in TrackedLocations : Track(locationId)
  \/ \E r \in trackRequests, delivered \in BOOLEAN : TrackPlaceholder(r, delivered)
  \/ \E locationId \in TrackedLocations : Untrack(locationId)
  \/ UntrackAll
  \/ \E t \in liveTimers : TickFire(t)
  \/ \E s \in 1..MaxInFlight : TickFetched(s)
  \/ \E s \in 1..MaxInFlight, ok \in BOOLEAN : TickEdited(s, ok)
  \/ \E s \in 1..MaxInFlight, ok \in BOOLEAN : TickSent(s, ok)

TrackSpec == Init /\ [][TrackNext]_vars

\* the callback in slot s ends in this step
TickOver(s) == ticks[s].pc # "idle" /\ ticks'[s].pc = "idle"
TimersOf(timers, locationId) == { t \in timers : t.loc = locationId }

(* ------------------------------------------------------------------ *)
(* C18: a /track for a (chat, location) pair that has no session, whose *)
(* placeholder is delivered, has sent exactly one placeholder, leaves   *)
(* the session of the pair registered with lastTemp = null and that     *)
(* message's handle, and has started exactly one interval for the pair. *)
(* ------------------------------------------------------------------ *)
C18_TrackStartsSession ==
  [][\A r \in trackRequests :
       (r \notin trackRequests' /\ lastTrack'.kind = "started") =>
         /\ lastTrack'.placeholders = 1
         /\ Registered(activeTrackings', r.loc, r.n)
         /\ sessionObjects'[r.n] = Null
         /\ trackingIntervals'[r.loc] = r.n
         /\ liveTimers' \ liveTimers = { [id |-> r.n, loc |-> r.loc] }
         /\ TimersOf(liveTimers', r.loc) = { [id |-> r.n, loc |-> r.loc] }]_vars

\* the callback in slot s ends having fetched a temperature, its edit and
\* the new message it may have sent having gone through
TickWentThrough(s) ==
  /\ TickOver(s)
  /\ ticks[s].fetched = "temp"
  /\ lastTick'.editOk
  /\ lastTick'.sends = 1 => lastTick'.sendOk

(* ------------------------------------------------------------------ *)
(* C19 as stated: a tick whose fetch succeeds makes exactly one edit;   *)
(* it sends exactly one new message if the fetched temperature differs  *)
(* from the session's lastTemp and none if it does not; afterwards      *)
(* lastTemp is the fetched temperature.                                 *)
(* ------------------------------------------------------------------ *)
C19_MessageWheneverDifferent ==
  [][\A s \in 1..MaxInFlight :
       TickWentThrough(s) =>
         /\ lastTick'.edits = 1
         /\ ticks[s].temp # ticks[s].prev => lastTick'.sends = 1
         /\ ticks[s].temp = ticks[s].prev => lastTick'.sends = 0
         /\ Registered(activeTrackings', ticks[s].loc, ticks[s].obj) =>
              sessionObjects'[ticks[s].obj] = ticks[s].temp]_vars

(* ------------------------------------------------------------------ *)
(* C19, amended: a tick of an active session whose fetch yields a       *)
(* temperature makes exactly one edit of the status message; if the     *)
(* edit succeeds and lastTemp is a temperature other than the fetched   *)
(* one, the tick sends exactly one new message; if lastTemp is null or  *)
(* equal to the fetched temperature, or the edit fails, it sends none;  *)
(* once the edit and any new message have gone through, lastTemp is the *)
(* fetched temperature, and otherwise the tick leaves lastTemp alone.   *)
(* ------------------------------------------------------------------ *)
C19_MessageOnChange ==
  [][\A s \in 1..MaxInFlight :
       (TickOver(s) /\ ticks[s].fetched = "temp") =>
         LET changed == ticks[s].prev # Null /\ ticks[s].temp # ticks[s].prev
             obj == ticks[s].obj
             active == Registered(activeTrackings', ticks[s].loc, obj)
         IN  /\ lastTick'.edits = 1
             /\ lastTick'.sends = (IF lastTick'.editOk /\ changed THEN 1 ELSE 0)
             /\ (active /\ TickWentThrough(s)) =>
                  sessionObjects'[obj] = ticks[s].temp
             /\ (active /\ ~TickWentThrough(s)) =>
                  sessionObjects'[obj] = sessionObjects[obj]]_vars

C19_Witness ==
  /\ lastTick.fetched = "temp"
  /\ lastTick.changed
  /\ lastTick.edits = 1
  /\ lastTick.sends = 1
  /\ lastTick.sendOk
  /\ \E l \in TrackedLocations :
       /\ activeTrackings.sessions[l] # 0
       /\ sessionObjects[activeTrackings.sessions[l]] \in Temps

(* ------------------------------------------------------------------ *)
(* C20: a tick whose edit of the status message fails removes the       *)
(* session and the interval of its (chat, location) pair and sends no   *)
(* message; ticks start only from an interval that is set and           *)
(* registered, for a session that is registered, so no later tick runs  *)
(* for the removed session.                                             *)
(* ------------------------------------------------------------------ *)
C20_FailedEditStopsTracking ==
  [][\A s \in 1..MaxInFlight :
       /\ (TickOver(s) /\ lastTick'.edits = 1 /\ ~lastTick'.editOk) =>
            /\ lastTick'.sends = 0
            /\ ~activeTrackings'.present \/ activeTrackings'.sessions[ticks[s].loc] = 0
            /\ trackingIntervals'[ticks[s].loc] = 0
            /\ TimersOf(liveTimers', ticks[s].loc) = {}
            /\ \A t \in liveTimers' : trackingIntervals'[t.loc] = t.id
       /\ (ticks[s].pc = "idle" /\ ticks'[s].pc # "idle") =>
            /\ [id |-> ticks'[s].timer, loc |-> ticks'[s].loc] \in liveTimers
            /\ trackingIntervals[ticks'[s].loc] = ticks'[s].timer
            /\ Registered(activeTrackings, ticks'[s].loc, ticks'[s].obj)]_vars

C20_Witness ==
  /\ lastTick.edits = 1
  /\ ~lastTick.editOk
  /\ lastTick.sends = 0
  /\ activeTrackings.present
  /\ \E l \in TrackedLocations :
       /\ activeTrackings.sessions[l] = 0
       /\ trackingIntervals[l] = 0
       /\ TimersOf(liveTimers, l) = {}

(* ------------------------------------------------------------------ *)
(* C21: a tick whose fetch fails makes one edit of the status message   *)
(* (the error text) and sends nothing; when that edit succeeds the tick *)
(* leaves every session, every registered interval and every running   *)
(* interval as they were, and lastTemp unchanged: the failed fetch does *)
(* not end the tracking.                                                *)
(* ------------------------------------------------------------------ *)
C21_FailedFetchKeepsTracking ==
  [][\A s \in 1..MaxInFlight :
       (TickOver(s) /\ ticks[s].fetched = "failed") =>
         /\ lastTick'.edits = 1
         /\ lastTick'.sends = 0
         /\ lastTick'.editOk =>
              /\ activeTrackings' = activeTrackings
              /\ trackingIntervals' = trackingIntervals
              /\ liveTimers' = liveTimers
              /\ Registered(activeTrackings, ticks[s].loc, ticks[s].obj) =>
                   sessionObjects'[ticks[s].obj] = sessionObjects[ticks[s].obj]]_vars

\* a tick with a failed fetch is over, its session known to have a
\* temperature, still registered and its interval still running
C21_Witness ==
  /\ lastTick.fetched = "failed"
  /\ lastTick.edits = 1
  /\ lastTick.editOk
  /\ \E l \in TrackedLocations :
       /\ Registered(activeTrackings, l, activeTrackings.sessions[l])
       /\ sessionObjects[activeTrackings.sessions[l]] \in Temps
       /\ TimersOf(liveTimers, l) # {}
       /\ trackingIntervals[l] # 0

\* the location has a session in the chat's Map
HasSession(chat, locationId) == chat.present /\ chat.sessions[locationId] # 0

(* ------------------------------------------------------------------ *)
(* C22: a /track for a pair that has a session changes no session, no   *)
(* session object and no interval, sends no placeholder, and is         *)
(* answered 'already tracking'; a placeholder is only ever requested    *)
(* for a pair without a session.                                        *)
(* ------------------------------------------------------------------ *)
C22_TrackExistingIsNoOp ==
  [][/\ \A l \in TrackedLocations :
          (HasSession(activeTrackings, l) /\ Track(l)) =>
            /\ lastTrack' = [kind |-> "already", placeholders |-> 0]
            /\ UNCHANGED << activeTrackings, trackingIntervals, liveTimers,
                            sessionObjects, trackRequests, trackCount >>
     /\ \A r \in trackRequests' \ trackRequests :
          ~HasSession(activeTrackings, r.loc)]_vars

C22_Witness ==
  /\ lastTrack = [kind |-> "already", placeholders |-> 0]
  /\ \E l \in TrackedLocations :
       /\ HasSession(activeTrackings, l)
       /\ sessionObjects[activeTrackings.sessions[l]] \in Temps
       /\ trackingIntervals[l] = activeTrackings.sessions[l]

(* ------------------------------------------------------------------ *)
(* C23: an /untrack for a pair that has no session changes no session   *)
(* and no interval, and its reply differs from the reply to an /untrack *)
(* that ended a session.                                                *)
(* ------------------------------------------------------------------ *)
C23_UntrackNothingIsReported ==
  [][\A l \in TrackedLocations :
       (~HasSession(activeTrackings, l) /\ Untrack(l)) =>
         /\ UNCHANGED << activeTrackings, trackingIntervals, liveTimers >>
         /\ lastTrack'.kind # untrackReply(TRUE)]_vars

(* ------------------------------------------------------------------ *)
(* C24: in every state each pair has at most one running interval, and  *)
(* an interval is registered for a pair exactly when the pair has a     *)
(* session.                                                             *)
(* ------------------------------------------------------------------ *)
C24_OneTimerIffSession ==
  \A l \in TrackedLocations :
    /\ Cardinality(TimersOf(liveTimers, l)) <= 1
    /\ (trackingIntervals[l] # 0) <=> HasSession(activeTrackings, l)

(* ------------------------------------------------------------------ *)
(* The user registry (state.js: users.json) and broadcastMessage        *)
(* (telegram.js): one broadcast over a registry                         *)
(* ------------------------------------------------------------------ *)
MaxUsers == 3
ChatIds == 1..MaxUsers
Markets == TrackedLocations
\* broadcastMessage without a marketId
NoMarket == ""

\* enabledMarkets: absent from the user (has = FALSE) or an object with a
\* boolean for some of the markets
EnabledMarkets ==
  { [has |-> FALSE, map |-> [m \in {} |-> TRUE]] }
    \cup { [has |-> TRUE, map |-> f] :
             f \in UNION { [S -> BOOLEAN] : S \in SUBSET Markets } }

RegisteredUser(chatId, enabledMarkets) ==
  [chatId |-> chatId, enabledMarkets |-> enabledMarkets]

\* the contents users.json can have: users of the chats 1..n, each once
RECURSIVE Registries(_)
Registries(n) ==
  IF n = 0 THEN { <<>> }
  ELSE LET fewer == Registries(n - 1)
       IN  fewer \cup { Append(q, RegisteredUser(n, e)) :
                          q \in fewer, e \in EnabledMarkets }

\* saveUsers: writeFileSync writes the file or fails, and the failure is
\* caught and logged
saveUsers(current, new, writeOk) == IF writeOk THEN new ELSE current

\* the filter of a getUsersForMarket that takes a missing entry for
\* opted out
enabledExplicitly(user, marketId) ==
  /\ user.enabledMarkets.has
  /\ marketId \in DOMAIN user.enabledMarkets.map
  /\ user.enabledMarkets.map[marketId]

\* the filter of getUsersForMarket
enabledFor(user, marketId) ==
  \/ ~user.enabledMarkets.has
  \/ marketId \notin DOMAIN user.enabledMarkets.map
  \/ user.enabledMarkets.map[marketId]

getUsersForMarket(registry, marketId) ==
  SelectSeq(registry, LAMBDA user : enabledFor(user, marketId))

\* a removeUser that removes nobody
removeUserKeepsUser(registry, chatId, writeOk) == registry

removeUser(registry, chatId, writeOk) ==
  LET filtered == SelectSeq(registry, LAMBDA u : u.chatId # chatId)
  IN  IF Len(filtered) # Len(registry)
      THEN saveUsers(registry, filtered, writeOk)
      ELSE registry

\* the answers of bot.sendMessage: delivered, 403 (blocked or deleted),
\* any other failure
SendOutcomes == {"ok", "403", "error"}

BroadcastInit ==
  /\ CycleStart
  /\ diskFaulty \in BOOLEAN
  /\ attentionZones = InitialZones
  /\ TimerIdle
  /\ ProbeIdle
  /\ ZoneIdle
  /\ TrackIdle
  /\ users \in Registries(MaxUsers)
  /\ mailing = NoMailing

\* broadcastMessage up to its first send: lines 483-496
broadcastMessage(marketId) ==
  /\ mailing.pc = "idle"
  /\ LET list == IF marketId # NoMarket THEN getUsersForMarket(users, marketId)
                 ELSE users
     IN  mailing' = [NoMailing EXCEPT
           !.pc = IF Len(list) = 0 THEN "done" ELSE "sending",
           !.marketId = marketId, !.users = list,
           !.i = IF Len(list) = 0 THEN 0 ELSE 1,
           !.registered = users]
  /\ UNCHANGED << pollVars, timer, probe, zoneVars, trackVars, users >>

\* a send answers: lines 497-511
broadcastSent(outcome, writeOk) ==
  /\ mailing.pc = "sending"
  /\ LET user == mailing.users[mailing.i]
         blocked == outcome = "403"
     IN  /\ users' = IF blocked THEN removeUser(users, user.chatId, writeOk)
                     ELSE users
         /\ mailing' = [mailing EXCEPT
              !.pc = IF mailing.i = Len(mailing.users) THEN "done" ELSE "sending",
              !.i = @ + 1,
              !.sentCount = IF outcome = "ok" THEN @ + 1 ELSE @,
              !.log = Append(@, [chatId |-> user.chatId, outcome |-> outcome,
                                 saved |-> blocked /\ writeOk])]
  /\ UNCHANGED << pollVars, timer, probe, zoneVars, trackVars >>

BroadcastNext ==
  \/ \E marketId \in Markets \cup {NoMarket} : broadcastMessage(marketId)
  \/ \E outcome \in SendOutcomes,
        writeOk \in (IF diskFaulty THEN BOOLEAN ELSE {TRUE}) :
       broadcastSent(outcome, writeOk)

BroadcastSpec == BroadcastInit /\ [][BroadcastNext]_vars

Delivered == mailing.pc = "done"
ChatsOf(list) == { list[k].chatId : k \in 1..Len(list) }
\* every user of the list was tried, once, in the order of the list
AllTried ==
  /\ Len(mailing.log) = Len(mailing.users)
  /\ \A k \in 1..Len(mailing.log) : mailing.log[k].chatId = mailing.users[k].chatId

(* ------------------------------------------------------------------ *)
(* C25 as stated: after a broadcast every recipient whose send failed   *)
(* with 403 is out of the registry, and every recipient of the list was *)
(* tried whatever failed before.                                        *)
(* ------------------------------------------------------------------ *)
C25_UnreachableRemoved ==
  Delivered =>
    /\ AllTried
    /\ \A k \in 1..Len(mailing.log) :
         mailing.log[k].outcome = "403" => mailing.log[k].chatId \notin ChatsOf(users)

(* ------------------------------------------------------------------ *)
(* C25, amended: a recipient whose send fails with 403 is removed from  *)
(* the registry when users.json can be rewritten, and stays registered  *)
(* when that write fails (the failure is logged); a recipient whose     *)
(* send succeeds or fails otherwise stays registered; every recipient   *)
(* of the list is tried whatever failed before.                         *)
(* ------------------------------------------------------------------ *)
C25_UnreachableRemovedIfSaved ==
  Delivered =>
    /\ AllTried
    /\ \A k \in 1..Len(mailing.log) :
         (mailing.log[k].chatId \notin ChatsOf(users)) <=>
           (mailing.log[k].outcome = "403" /\ mailing.log[k].saved)
    /\ ChatsOf(mailing.registered) \ ChatsOf(mailing.users) \subseteq ChatsOf(users)

C25_Witness ==
  /\ Delivered
  /\ Len(mailing.log) = 3
  /\ mailing.log[1].outcome = "403"
  /\ mailing.log[1].saved
  /\ mailing.log[2].outcome = "error"
  /\ mailing.log[3].outcome = "ok"
  /\ ChatsOf(users) = { mailing.log[2].chatId, mailing.log[3].chatId }

\* the opt-in of a user for a market is explicitly false
OptedOut(user, marketId) ==
  /\ user.enabledMarkets.has
  /\ marketId \in DOMAIN user.enabledMarkets.map
  /\ user.enabledMarkets.map[marketId] = FALSE

(* ------------------------------------------------------------------ *)
(* C26: the alert of a location is sent to exactly the registered users *)
(* whose opt-in for the location is true or absent (users without an    *)
(* opt-in map included), each once, and to no user whose opt-in for it  *)
(* is false.                                                            *)
(* ------------------------------------------------------------------ *)
C26_OptInOrAbsent ==
  (Delivered /\ mailing.marketId # NoMarket) =>
    /\ ChatsOf(mailing.log) =
         { mailing.registered[k].chatId : k \in
             { j \in 1..Len(mailing.registered) :
                 ~OptedOut(mailing.registered[j], mailing.marketId) } }
    /\ Cardinality(ChatsOf(mailing.log)) = Len(mailing.log)

C26_Witness ==
  /\ Delivered
  /\ mailing.marketId # NoMarket
  /\ Len(mailing.registered) = 3
  /\ Len(mailing.log) = 2
  /\ \E a, b, c \in 1..3 :
       /\ ~mailing.registered[a].enabledMarkets.has
       /\ mailing.registered[b].enabledMarkets.has
       /\ mailing.marketId \notin DOMAIN mailing.registered[b].enabledMarkets.map
       /\ OptedOut(mailing.registered[c], mailing.marketId)
       /\ ChatsOf(mailing.log) =
            { mailing.registered[a].chatId, mailing.registered[b].chatId }

(* ------------------------------------------------------------------ *)
(* The poll loop under fairness (scheduleNextPoll, pollAllLocations)    *)
(* ------------------------------------------------------------------ *)

\* the service starts with a state directory that may or may not accept
\* writes
LiveInit ==
  /\ CycleStart
  /\ diskFaulty \in BOOLEAN
  /\ attentionZones = InitialZones
  /\ TimerIdle /\ ProbeIdle /\ ZoneIdle /\ TrackIdle /\ SinkIdle

\* the steps of the poll loop; the clock stands still
LiveNext ==
  \/ PollStart
  \/ FetchRequest
  \/ ProcessLocation
  \/ Broadcast
  \/ PollDone

\* the timer of scheduleNextPoll fires once armed, and every awaited call
\* of pollAllLocations settles
LiveFairness ==
  /\ WF_vars(PollStart)
  /\ WF_vars(FetchRequest)
  /\ WF_vars(ProcessLocation)
  /\ WF_vars(Broadcast)
  /\ WF_vars(PollDone)

LiveSpec == LiveInit /\ [][LiveNext]_vars /\ LiveFairness

\* the cycle that is running met an error: a failed fetch, an exception of
\* the extraction, a payload without a temperature
CycleHadError ==
  \E i \in 1..Len(trail) : trail[i].kind \in {"fetch_failed", "threw", "no_temp"}

FaultySpec == LiveInit /\ [][LiveNext]_vars

\* the latest call processed a reading and its saveLocationState did not
\* get the new row into the store
WriteFailed ==
  /\ IsReading
  /\ (LastKey \notin DOMAIN files \/ files[LastKey] # last.after)

\* C28: when the write of the state row fails in processLocation, the
\* failure is not propagated: the alerts decided from the in-memory state
\* are returned and collected, and dispatched at the end of the cycle; the
\* cycle goes on with the remaining locations; and the store, the row of
\* the call included, keeps its previous content
C28_WriteFailureIsContained ==
  (WriteFailed /\ trail # <<>>) =>
    /\ files = last.filesBefore
    /\ last.after # last.before
    /\ trail[Len(trail)].kind = "reading"
    /\ trail[Len(trail)].alerts = last.alerts
    /\ allAlerts = last.collected \o last.alerts
    /\ Len(trail) < NLoc => (pc \in {"fetch", "await"} /\ idx = Len(trail) + 1)
    /\ Len(trail) = NLoc => pc \in {"dispatch", "idle"}
    /\ CycleOver => outbox = MessagesOf(allAlerts)

\* a finished cycle whose last call decided an alert against a stored row
\* and failed to write the row back: the alert was broadcast and the row
\* is the one the call had loaded
C28_Witness ==
  /\ CycleOver
  /\ WriteFailed
  /\ last.alerts # <<>>
  /\ LastKey \in DOMAIN files
  /\ files[LastKey] = last.before
  /\ outbox # <<>>
  /\ outbox[Len(outbox)].message = last.alerts[Len(last.alerts)]

(* ------------------------------------------------------------------ *)
(* The state row of a fallback reading                                  *)
(* ------------------------------------------------------------------ *)
\* the calendar date the reading of the latest call belongs to: the date
\* fetchWeatherData returned it for, the day before the location's local
\* date when the answer is a fallback
ReadingDate ==
  IF currentReadings[last.location].isFallback
  THEN LocalDateAt(ClockInstants[last.clk], last.location) - 1
  ELSE LocalDateAt(ClockInstants[last.clk], last.location)

\* C29: processLocation reads and writes the state row keyed by the
\* calendar date the processed reading belongs to: a fallback reading (data
\* for yesterday) is folded into yesterday's row, and the row of the
\* location's current local date is left as it was
C29_RowOfReadingDate ==
  IsReading =>
    LET k == <<last.location, ReadingDate>>
    IN  /\ last.before = (IF k \in DOMAIN last.filesBefore
                          THEN last.filesBefore[k] ELSE DefaultState)
        /\ k \in DOMAIN files
        /\ files[k] = last.after
        /\ \A j \in DOMAIN files \ {k} :
             j \in DOMAIN last.filesBefore /\ files[j] = last.filesBefore[j]

(* ------------------------------------------------------------------ *)
(* The length of the attention window                                   *)
(* ------------------------------------------------------------------ *)
\* C30: for every set of historical peak hours, the attention window
\* returned by calculateAttentionZone spans exactly 3 hours
\* (endHour - startHour = 3) with 0 <= startHour <= endHour <= 23
C30_WindowSpansThreeHours ==
  ZoneDone =>
    LET zone == attentionZones[ZoneLocation]
    IN  /\ zone.endHour - zone.startHour = 3
        /\ 0 <= zone.startHour
        /\ zone.startHour <= zone.endHour
        /\ zone.endHour <= 23

(* ------------------------------------------------------------------ *)
(* One alert per reading                                                *)
(* ------------------------------------------------------------------ *)
\* C31: processLocation emits at most one alert per reading: the new
\* high, drop and sustained high branches exclude each other, so a cycle
\* collects at most one alert for each location
C31_AtMostOneAlertPerReading ==
  /\ Len(last.alerts) <= 1
  /\ \A i \in 1..Len(trail) : Len(trail[i].alerts) <= 1
  /\ \A i, j \in 1..Len(allAlerts) :
       allAlerts[i].location = allAlerts[j].location => i = j
  /\ \A i, j \in 1..Len(outbox) :
       outbox[i].marketId = outbox[j].marketId => i = j

\* a new high read inside the attention zone, where the reading also
\* equals the (new) high with no drop alerted: one alert, the new high
C31_Witness ==
  /\ IsReading
  /\ LastInWindow
  /\ last.alerts # <<>>
  /\ last.alerts[1].type = "new_high"
  /\ Len(last.alerts) = 1
  /\ files[LastKey].highTemp = last.temp
  /\ ~files[LastKey].hasAlertedDrop

(* ------------------------------------------------------------------ *)
(* The drop flag of a stored row                                        *)
(* ------------------------------------------------------------------ *)
\* C32: in every persisted row with highTemp set, hasAlertedDrop = false
\* implies lastTemp = highTemp: whenever the last reading is below the
\* day's high, the drop has already been alerted
C32_NoDropFlagMeansAtHigh ==
  \A k \in DOMAIN files :
    files[k].highTemp # Null =>
      /\ ~files[k].hasAlertedDrop => files[k].lastTemp = files[k].highTemp
      /\ files[k].lastTemp < files[k].highTemp => files[k].hasAlertedDrop
      /\ files[k].lastTemp <= files[k].highTemp

\* a row whose readings dropped and then rose to a new high, the flag
\* cleared again, next to a row whose last reading is below its high
C32_Witness ==
  /\ \E k \in DOMAIN files :
       /\ Len(processed[k]) = 3
       /\ processed[k][2] < processed[k][1]
       /\ processed[k][3] > processed[k][1]
       /\ ~files[k].hasAlertedDrop
       /\ files[k].lastTemp = files[k].highTemp
  /\ \E k \in DOMAIN files :
       /\ files[k].lastTemp < files[k].highTemp
       /\ files[k].hasAlertedDrop

(* ------------------------------------------------------------------ *)
(* The service as initWeatherService runs it: the startup poll, then    *)
(* the timer of scheduleNextPoll and the cycles its callback starts.    *)
(* pc = "overlap" stands for a pollAllLocations entered while another   *)
(* one has not returned.                                                *)
(* ------------------------------------------------------------------ *)
\* pollAllLocations is entered
EnterPoll ==
  /\ cycles' = cycles + 1
  /\ allAlerts' = <<>>
  /\ outbox' = <<>>
  /\ sentIdx' = 1
  /\ idx' = 1
  /\ pc' = "fetch"
  /\ trail' = <<>>
  /\ UNCHANGED << clk, files, diskFaulty, attentionZones, currentReadings,
                  reqDate, processed, last >>

\* initWeatherService, line 1823: the initial poll
InitialPoll ==
  /\ cycles = 0
  /\ pc = "idle"
  /\ ~timer.armed
  /\ EnterPoll
  /\ UNCHANGED auxVars

\* pollAllLocations returns to initWeatherService (line 1826) or to the
\* callback of the timer (line 1802): scheduleNextPoll arms the timer
PollReturns ==
  /\ pc = "dispatch"
  /\ sentIdx > Len(allAlerts)
  /\ pc' = "idle"
  /\ timer' = [timer EXCEPT !.armed = TRUE,
                            !.msUntilNext = getMillisUntilNextPoll(timer.now)]
  /\ UNCHANGED << clk, files, diskFaulty, attentionZones, currentReadings,
                  idx, reqDate, allAlerts, sentIdx, outbox, cycles, processed,
                  trail, last >>
  /\ UNCHANGED << probe, zoneVars, trackVars, sinkVars >>

\* a callback that arms the next timer before it awaits pollAllLocations
TimerPollRearmsFirst ==
  /\ timer.armed
  /\ cycles < MaxCycles
  /\ timer' = [timer EXCEPT !.now = (timer.now + timer.msUntilNext) % MsPerHour,
                            !.msUntilNext = PollPeriodMinutes * MsPerMinute,
                            !.polls = timer.polls + 1]
  /\ IF pc = "idle"
     THEN EnterPoll
     ELSE /\ pc' = "overlap"
          /\ UNCHANGED << clk, files, diskFaulty, attentionZones,
                          currentReadings, idx, reqDate, allAlerts, sentIdx,
                          outbox, cycles, processed, trail, last >>
  /\ UNCHANGED << probe, zoneVars, trackVars, sinkVars >>

\* the timer fires (lines 1800-1801): its callback enters pollAllLocations,
\* whatever the service is doing
TimerPoll ==
  /\ timer.armed
  /\ cycles < MaxCycles
  /\ timer' = [timer EXCEPT !.now = (timer.now + timer.msUntilNext) % MsPerHour,
                            !.armed = FALSE,
                            !.polls = timer.polls + 1]
  /\ IF pc = "idle"
     THEN EnterPoll
     ELSE /\ pc' = "overlap"
          /\ UNCHANGED << clk, files, diskFaulty, attentionZones,
                          currentReadings, idx, reqDate, allAlerts, sentIdx,
                          outbox, cycles, processed, trail, last >>
  /\ UNCHANGED << probe, zoneVars, trackVars, sinkVars >>

ServiceNext ==
  \/ InitialPoll
  \/ FetchRequest
  \/ ProcessLocation
  \/ Broadcast
  \/ PollReturns
  \/ TimerPoll

ServiceSpec == Init /\ [][ServiceNext]_vars

\* C33: at most one poll cycle is in progress at any time: the timer for
\* the next cycle is armed only once the previous cycle, the startup cycle
\* included, has returned, and every cycle but the first is started by the
\* timer; so the read-modify-write sequences on a row never interleave and
\* no update of a row is lost: the history of every row holds every
\* reading processed for its key
C33_OneCycleAtATime ==
  /\ pc # "overlap"
  /\ timer.armed => (pc = "idle" /\ cycles >= 1)
  /\ cycles <= timer.polls + 1
  /\ pc # "idle" => cycles = timer.polls + 1
  /\ \A k \in DOMAIN files : HistoryTemps(files[k]) = processed[k]

\* the timer is armed after the second cycle, which updated a row the
\* startup cycle had written
C33_Witness ==
  /\ timer.armed
  /\ timer.polls >= 1
  /\ cycles >= 2
  /\ pc = "idle"
  /\ \E k \in DOMAIN files : Len(processed[k]) >= 2

(* ------------------------------------------------------------------ *)
(* Ticks in flight when their session is stopped or replaced            *)
(* ------------------------------------------------------------------ *)
\* the callback in slot s asks for an edit of its status message in this
\* step (its fetch has answered), or sends a new message (its edit went
\* through)
TickEdits(s) == ticks[s].pc = "fetch" /\ ticks'[s].pc = "edit"
TickSendsNew(s) == ticks[s].pc = "edit" /\ ticks'[s].pc = "send"

\* C34: after stopTracking for a pair has completed, no edit of the
\* status message and no new tracking message is sent for the stopped
\* session, even if a tick of the session was awaiting its fetch when the
\* stop happened: a tick edits or sends only for a session that is still
\* registered
C34_NoMessageAfterStop ==
  [][\A s \in 1..MaxInFlight :
       (TickEdits(s) \/ TickSendsNew(s)) =>
         Registered(activeTrackings, ticks[s].loc, ticks[s].obj)]_vars

\* the callback in slot s belongs to an earlier session of its pair: the
\* pair has a session, and it is not the one the callback read
TickOfEarlierSession(s) ==
  /\ ticks[s].pc # "idle"
  /\ HasSession(activeTrackings, ticks[s].loc)
  /\ activeTrackings.sessions[ticks[s].loc] # ticks[s].obj

\* C36: a tick of an earlier, stopped session of a pair never removes or
\* alters a session started later for the pair: when the pair was stopped
\* and tracked again while the old tick was in flight, the failed edit of
\* the old tick leaves the new session, its registered interval and the
\* running intervals as they were
C36_OldTickLeavesNewSession ==
  [][\A s \in 1..MaxInFlight :
       (TickOfEarlierSession(s) /\ TickOver(s)) =>
         /\ activeTrackings' = activeTrackings
         /\ trackingIntervals' = trackingIntervals
         /\ liveTimers' = liveTimers]_vars

\* the Map a waiting /track handler holds is the chat's Map in
\* activeTrackings
HoldsChatMap(r, chat) == chat.present /\ chat.map = r.map

\* C37: a /track for A whose placeholder is delivered leaves a session for
\* A registered and its interval running, even if a stop of another
\* location B, or a stop-all, was handled while the handler awaited the
\* placeholder: such a stop leaves the handler holding the chat's Map,
\* and a handler holding the chat's Map registers its session and its
\* interval
C37_StartSurvivesOtherStops ==
  [][\A r \in trackRequests :
       /\ (HoldsChatMap(r, activeTrackings) /\ r \in trackRequests'
           /\ (UntrackAll \/ \E l \in TrackedLocations \ {r.loc} : Untrack(l))) =>
            HoldsChatMap(r, activeTrackings')
       /\ (HoldsChatMap(r, activeTrackings) /\ r \notin trackRequests'
           /\ lastTrack'.kind = "started") =>
            /\ Registered(activeTrackings', r.loc, r.n)
            /\ trackingIntervals'[r.loc] = r.n
            /\ [id |-> r.n, loc |-> r.loc] \in liveTimers']_vars

\* a /track handler for the location is waiting for its placeholder
StartPending(locationId) == \E r \in trackRequests : r.loc = locationId

\* C38: when a second /track for a pair arrives while the first is
\* awaiting its placeholder, it is answered 'already tracking' and asks
\* for no second placeholder, so that one placeholder, one session and one
\* interval result
C38_SecondStartIsAlreadyTracking ==
  [][\A l \in TrackedLocations :
       (StartPending(l) /\ Track(l)) =>
         /\ lastTrack'.kind = "already"
         /\ trackRequests' = trackRequests
         /\ trackCount' = trackCount]_vars

(* ------------------------------------------------------------------ *)
(* C40: after a stop-all request of a chat has been handled, no session *)
(* and no interval remains for any location of the chat (the model      *)
(* follows one chat, so there is no other chat whose sessions and       *)
(* intervals could change).                                             *)
(* ------------------------------------------------------------------ *)
C40_StopAllLeavesNothing ==
  [][UntrackAll =>
       /\ ~activeTrackings'.present
       /\ trackingIntervals' = NoSessions
       /\ liveTimers' = {}]_vars

(* ------------------------------------------------------------------ *)
(* toggleUserMarket (state.js) over the registries of users.json        *)
(* ------------------------------------------------------------------ *)
\* the user of the chat in the registry, if there is one
IndexOfUser(registry, chatId) ==
  IF \E i \in 1..Len(registry) : registry[i].chatId = chatId
  THEN CHOOSE i \in 1..Len(registry) : registry[i].chatId = chatId
  ELSE 0

\* toggleUserMarket: the registry it leaves and what it returns (found =
\* FALSE for the null of an unknown chat); a missing enabledMarkets
\* becomes {}, and the new entry is the negation of the old one, a missing
\* entry being undefined and so negated to true
toggleUserMarket(registry, chatId, marketId, writeOk) ==
  LET userIndex == IndexOfUser(registry, chatId)
  IN  IF userIndex = 0
      THEN [users |-> registry, found |-> FALSE, value |-> FALSE]
      ELSE LET user == registry[userIndex]
               map == user.enabledMarkets.map
               old == marketId \in DOMAIN map /\ map[marketId]
               toggled == [m \in DOMAIN map \cup {marketId} |->
                             IF m = marketId THEN ~old ELSE map[m]]
               updated == [registry EXCEPT ![userIndex].enabledMarkets =
                             [has |-> TRUE, map |-> toggled]]
           IN  [users |-> saveUsers(registry, updated, writeOk),
                found |-> TRUE, value |-> ~old]

ToggleInit ==
  /\ CycleInit
  /\ attentionZones = InitialZones
  /\ TimerIdle
  /\ ProbeIdle
  /\ ZoneIdle
  /\ TrackIdle
  /\ users \in Registries(MaxUsers)
  /\ mailing = NoMailing

\* a button of the /markets menu is pressed: toggleUserMarket is called
ToggleCall ==
  /\ \E chatId \in ChatIds, marketId \in Markets :
       LET r == toggleUserMarket(users, chatId, marketId, TRUE)
       IN  /\ users' = r.users
           /\ probe' = [fn |-> "toggleUserMarket",
                        input |-> <<users, chatId, marketId>>,
                        output |-> <<r.found, r.value>>, done |-> TRUE]
  /\ UNCHANGED << pollVars, timer, zoneVars, trackVars, mailing >>

ToggleNext == ToggleCall

ToggleSpec == ToggleInit /\ [][ToggleNext]_vars

\* the latest call of toggleUserMarket found its user
Toggled == probe.fn = "toggleUserMarket" /\ probe.done /\ probe.output[1]

\* C39: toggleUserMarket(user, L) always flips the user's effective
\* opt-in for L as the broadcast filter reads it, and returns the new
\* effective value, also when the user's entry for L was absent and so
\* effectively opted in
C39_ToggleFlipsEffectiveOptIn ==
  Toggled =>
    LET before == probe.input[1]
        chatId == probe.input[2]
        marketId == probe.input[3]
        was == enabledFor(before[IndexOfUser(before, chatId)], marketId)
        is == enabledFor(users[IndexOfUser(users, chatId)], marketId)
    IN  /\ is = ~was
        /\ probe.output[2] = is

(* ------------------------------------------------------------------ *)
(* One session whose ticks overlap: a callback of the 10-second         *)
(* interval is still awaiting its fetch (timeout 10 seconds, and a      *)
(* retry), its edit or its send when the interval fires again.          *)
(* ------------------------------------------------------------------ *)
\* the callbacks that can be in flight at once
MaxOverlap == MaxInFlight + 1

OverlapInit ==
  /\ PollInit
  /\ TimerIdle
  /\ ProbeIdle
  /\ ZoneIdle
  /\ SinkIdle
  /\ activeTrackings = NoChat
  /\ trackingIntervals = NoSessions
  /\ liveTimers = {}
  /\ sessionObjects = [n \in 1..MaxTrackRequests |-> Null]
  /\ trackRequests = {}
  /\ ticks = [s \in 1..MaxOverlap |-> NoTick]
  /\ trackCount = 0
  /\ lastTrack = NoLastTrack
  /\ lastTick = NoLastTick

\* the chat starts one session and lets it run
OverlapNext ==
  \/ \E locationId \in TrackedLocations : trackCount = 0 /\ Track(locationId)
  \/ \E r \in trackRequests, delivered \in BOOLEAN : TrackPlaceholder(r, delivered)
  \/ \E t \in liveTimers : TickFire(t)
  \/ \E s \in DOMAIN ticks : TickFetched(s)
  \/ \E s \in DOMAIN ticks, ok \in BOOLEAN : TickEdited(s, ok)
  \/ \E s \in DOMAIN ticks, ok \in BOOLEAN : TickSent(s, ok)

OverlapSpec == OverlapInit /\ [][OverlapNext]_vars

\* the callback in slot s is sending the new message of a change
SendingChange(s) == ticks[s].pc = "send"

\* C35: for one session each change of the observed temperature produces
\* exactly one new message, even when two ticks of the session are in
\* flight at once and both read the same lastTemp: no two callbacks send
\* the message of the same change, from the same lastTemp to the same
\* temperature
C35_OneMessagePerChange ==
  \A s, u \in DOMAIN ticks :
    (/\ SendingChange(s)
     /\ SendingChange(u)
     /\ ticks[s].obj = ticks[u].obj
     /\ ticks[s].prev = ticks[u].prev
     /\ ticks[s].temp = ticks[u].temp) => s = u

====
